---- MODULE Spec2Model ----
(***************************************************************************)
(* EventHorizon: the log parser (src/src/lib/parser.ts) and the page that  *)
(* merges the parsed files (src/src/app/page.tsx).                         *)
(*                                                                         *)
(* Text is modelled as text: a file's content and every line are strings,  *)
(* and the regular expressions of the parser are matched character by      *)
(* character with the semantics of the ECMAScript engine (greedy           *)
(* quantifiers, leftmost alternative first).                               *)
(* Instants are integers: year * 100 + position within the year.           *)
(***************************************************************************)
EXTENDS Integers, Sequences, FiniteSets, TLC

(***************************************************************************)
(* Characters and character classes of the regular expressions.            *)
(***************************************************************************)
Digits == "0123456789"
Uppers == "ABCDEFGHIJKLMNOPQRSTUVWXYZ"
Lowers == "abcdefghijklmnopqrstuvwxyz"
Chars(t) == {SubSeq(t, i, i) : i \in 1..Len(t)}
Digit == Chars(Digits)
Upper == Chars(Uppers)
Lower == Chars(Lowers)
\* \w
WordCh == Upper \cup Lower \cup Digit \cup {"_"}
\* \s
Space == {" ", "\t", "\n", "\r", "\f"}
\* the line terminators that "." does not match
LineTerm == {"\n", "\r"}

\* s[i] of a string, "" outside it
CharAt(s, i) == IF i >= 1 /\ i <= Len(s) THEN SubSeq(s, i, i) ELSE ""

\* s.substring(i - 1), 1-based
From(s, i) == IF i > Len(s) THEN "" ELSE SubSeq(s, i, Len(s))

(***************************************************************************)
(* Regular expressions. An expression is a sequence of elements, and the   *)
(* expressions below are joined with \o:                                   *)
(*   Bol, Eol              ^ and $ (no multiline flag is used)             *)
(*   Lit(t)                the literal text t                              *)
(*   Cls(S, lo, hi)        lo..hi characters of S, greedy (hi < 0: no max) *)
(*   Not(S, lo, hi)        lo..hi characters outside S, greedy             *)
(*   Lazy(S, lo, hi)       lo..hi characters outside S, as few as possible *)
(*   Cap(n, e)             capturing group n: where it opens, e, where it  *)
(*                         closes                                          *)
(*   Opt(e)  Star(e)       (?:e)? and (?:e)*, greedy                       *)
(*   Alt(es)               (?:e1|e2|...)                                   *)
(***************************************************************************)
Bol == <<[k |-> "bol"]>>
Eol == <<[k |-> "eol"]>>
Lit(t) == <<[k |-> "lit", t |-> t]>>
Cls(S, lo, hi) == <<[k |-> "cls", set |-> S, neg |-> FALSE, lo |-> lo, hi |-> hi, lazy |-> FALSE]>>
Not(S, lo, hi) == <<[k |-> "cls", set |-> S, neg |-> TRUE, lo |-> lo, hi |-> hi, lazy |-> FALSE]>>
Lazy(S, lo, hi) == <<[k |-> "cls", set |-> S, neg |-> TRUE, lo |-> lo, hi |-> hi, lazy |-> TRUE]>>
Cap(n, e) == <<[k |-> "open", id |-> n]>> \o e \o <<[k |-> "close", id |-> n]>>
Opt(e) == <<[k |-> "opt", body |-> e]>>
Star(e) == <<[k |-> "star", body |-> e]>>
Alt(es) == <<[k |-> "alt", alts |-> es]>>

NoMatch == [ok |-> FALSE]

InClass(e, c) == c # "" /\ ((c \in e.set) # e.neg)

Least(S) == CHOOSE n \in S : \A o \in S : n <= o
Most(S) == CHOOSE n \in S : \A o \in S : n >= o

\* true when the text t stands at pos in s
HasAt(s, pos, t) == pos + Len(t) - 1 <= Len(s) /\ SubSeq(s, pos, pos + Len(t) - 1) = t

\* the most characters the quantified class e takes at pos
MostOf(e, s, pos) ==
    LET limit == IF e.hi >= 0 /\ e.hi < Len(s) + 1 - pos THEN e.hi ELSE Len(s) + 1 - pos
    IN Least({n \in 0..limit : n = limit \/ ~InClass(e, CharAt(s, pos + n))})

(***************************************************************************)
(* The matcher. A backtracking engine returns the first match in its       *)
(* order of preference: at every choice it takes the first option from     *)
(* which the rest of the expression can still match. So the matcher works  *)
(* out the positions each part of the expression can be reached at (Ends), *)
(* then, backwards from the end, those of them from which the rest of the  *)
(* expression can match (Tails), and then walks the expression forwards    *)
(* taking at each choice the engine's first option that stays within them  *)
(* (Walk): the greedy take, the optional group, the leftmost alternative.  *)
(***************************************************************************)
\* The elements lo..hi of an expression are taken half by half, so that an
\* expression of n elements nests log n deep.
Mid(lo, hi) == (lo + hi) \div 2

\* the elements that match the empty text only
Marks == {"bol", "eol", "open", "close"}

RECURSIVE Ends(_, _, _, _, _)
\* the positions where a match of the elements lo..hi of seq from one of R can end
Ends(seq, lo, hi, s, R) ==
    IF R = {} \/ lo > hi THEN R
    ELSE IF lo < hi
    THEN LET half == Ends(seq, lo, Mid(lo, hi), s, R)
         IN Ends(seq, Mid(lo, hi) + 1, hi, s, half)
    ELSE CASE seq[lo].k = "bol" -> R \cap {1}
           [] seq[lo].k = "eol" -> R \cap {Len(s) + 1}
           [] seq[lo].k \in {"open", "close"} -> R
           [] seq[lo].k = "lit" -> {p + Len(seq[lo].t) : p \in {q \in R : HasAt(s, q, seq[lo].t)}}
           [] seq[lo].k = "cls" -> UNION {(p + seq[lo].lo)..(p + MostOf(seq[lo], s, p)) : p \in R}
           [] seq[lo].k = "opt" -> R \cup Ends(seq[lo].body, 1, Len(seq[lo].body), s, R)
           [] seq[lo].k = "alt" ->
                 UNION {Ends(seq[lo].alts[j], 1, Len(seq[lo].alts[j]), s, R) :
                           j \in DOMAIN seq[lo].alts}
           [] seq[lo].k = "star" ->
                 \* (?:body)*: once more from the ends of one more iteration
                 IF Ends(seq[lo].body, 1, Len(seq[lo].body), s, R) \subseteq R THEN R
                 ELSE Ends(seq, lo, hi, s, R \cup Ends(seq[lo].body, 1, Len(seq[lo].body), s, R))

\* the first members of the pairs from which a chain of pairs leads into S
RECURSIVE Reaching(_, _)
Reaching(pairs, S) ==
    LET more == S \cup {x[1] : x \in {y \in pairs : y[2] \in S}}
    IN IF more = S THEN S ELSE Reaching(pairs, more)

\* a sequence without its last member
Front(seq) == SubSeq(seq, 1, Len(seq) - 1)

RECURSIVE Tails(_, _, _, _, _, _)
RECURSIVE Joined(_, _, _, _, _, _)
RECURSIVE Before(_, _, _, _)
\* tails[j - lo + 1], for j = lo..hi + 1, is the set of positions the elements
\* j.. of seq are reached at, starting the elements lo.. from one of R, and
\* from which the elements j..hi can match and end in G
Tails(seq, lo, hi, s, R, G) ==
    IF R = {} THEN [j \in 1..(hi + 2 - lo) |-> {}]
    ELSE IF lo > hi THEN <<R \cap G>>
    ELSE IF lo < hi
    THEN Joined(seq, lo, Mid(lo, hi), s, R,
                Tails(seq, Mid(lo, hi) + 1, hi, s, Ends(seq, lo, Mid(lo, hi), s, R), G))
    ELSE Before(seq[lo], s, R, Ends(seq, lo, hi, s, R) \cap G)

\* the tails of the elements lo..mid and, after them, those of the later elements
Joined(seq, lo, mid, s, R, later) ==
    IF later[1] = {} THEN [j \in 1..(mid + 1 - lo) |-> {}] \o later
    ELSE Front(Tails(seq, lo, mid, s, R, later[1])) \o later

\* the positions of R from which the element e can match and end in one of
\* after, and after
Before(e, s, R, after) ==
    IF after = {} THEN <<{}, {}>>
    ELSE <<CASE e.k \in Marks -> after
             [] e.k = "lit" -> {p \in R : HasAt(s, p, e.t) /\ p + Len(e.t) \in after}
             [] e.k = "cls" -> {p \in R : \E n \in e.lo..MostOf(e, s, p) : p + n \in after}
             [] e.k = "opt" -> Tails(e.body, 1, Len(e.body), s, R, after)[1] \cup (R \cap after)
             [] e.k = "alt" ->
                   UNION {Tails(e.alts[j], 1, Len(e.alts[j]), s, R, after)[1] :
                             j \in DOMAIN e.alts}
             [] e.k = "star" ->
                   \* (?:body)*: from where iterations of body lead into after
                   R \cap Reaching(UNION {{<<p, q>> : q \in Ends(e.body, 1, Len(e.body), s, {p})} :
                                             p \in Ends(<<e>>, 1, 1, s, R)},
                                   after),
           after>>

\* the positions from which seq can match, from one of R, and end in G
Starts(seq, s, R, G) == Tails(seq, 1, Len(seq), s, R, G)[1]

\* how many characters the engine gives the quantified class e at pos, when
\* what follows e can match from the positions after
Take(e, s, pos, after) ==
    LET takes == {n \in e.lo..MostOf(e, s, pos) : pos + n \in after}
    IN IF e.lazy THEN Least(takes) ELSE Most(takes)

RECURSIVE Walk(_, _, _, _, _, _)
RECURSIVE Onward(_, _, _, _, _, _)
RECURSIVE WalkIn(_, _, _, _)
\* The engine's match of the elements lo..hi of seq, continuing the match at:
\* at.end is where it stands, one of the positions from which the elements
\* can match, at.open where each group opened and at.caps the groups captured
\* so far. tails[j] is where the elements j.. of seq can match from.
Walk(seq, lo, hi, tails, s, at) ==
    IF lo > hi THEN at
    ELSE IF lo < hi
    THEN Onward(seq, Mid(lo, hi) + 1, hi, tails, s, Walk(seq, lo, Mid(lo, hi), tails, s, at))
    ELSE CASE seq[lo].k \in {"bol", "eol"} -> at
           [] seq[lo].k = "open" -> [at EXCEPT !.open[seq[lo].id] = at.end]
           [] seq[lo].k = "close" ->
                 [at EXCEPT !.caps[seq[lo].id] = SubSeq(s, at.open[seq[lo].id], at.end - 1)]
           [] seq[lo].k = "lit" -> [at EXCEPT !.end = at.end + Len(seq[lo].t)]
           [] seq[lo].k = "cls" ->
                 [at EXCEPT !.end = at.end + Take(seq[lo], s, at.end, tails[lo + 1])]
           [] seq[lo].k = "alt" ->
                 \* the first alternative that can match here, the rest after it
                 WalkIn(seq[lo].alts[Least({a \in DOMAIN seq[lo].alts :
                                    Starts(seq[lo].alts[a], s, {at.end}, tails[lo + 1]) # {}})],
                        s, at, tails[lo + 1])
           [] seq[lo].k = "opt" ->
                 \* the group, if it can match here and the rest after it
                 IF Starts(seq[lo].body, s, {at.end}, tails[lo + 1]) # {}
                 THEN WalkIn(seq[lo].body, s, at, tails[lo + 1])
                 ELSE at
           [] seq[lo].k = "star" ->
                 \* one more iteration, if after it the star and the rest can match
                 IF Starts(seq[lo].body \o <<seq[lo]>>, s, {at.end}, tails[lo + 1]) # {}
                 THEN Walk(seq, lo, hi, tails, s,
                           WalkIn(seq[lo].body, s, at,
                                  Starts(<<seq[lo]>>, s,
                                         Ends(seq[lo].body, 1, Len(seq[lo].body), s, {at.end}),
                                         tails[lo + 1])))
                 ELSE at

\* the match goes on with the elements lo..hi from where it stands
Onward(seq, lo, hi, tails, s, at) ==
    IF at.end \in tails[lo] THEN Walk(seq, lo, hi, tails, s, at) ELSE at

\* the engine's match of the group body, continuing the match at, that ends in G
WalkIn(body, s, at, G) ==
    Walk(body, 1, Len(body), Tails(body, 1, Len(body), s, {at.end}, G), s, at)

\* the match that starts at first and is r from there: parts[n] is group n,
\* whole the matched text (parts[0]), index where the match starts
MatchAt(s, first, r) ==
    [ok |-> TRUE, index |-> first, end |-> r.end, parts |-> r.caps,
     whole |-> SubSeq(s, first, r.end - 1), input |-> s]

\* the leftmost match, tails[1] being the positions a match can start at
Leftmost(re, ngroups, s, tails) ==
    IF tails[1] = {} THEN NoMatch
    ELSE MatchAt(s, Least(tails[1]),
                 Walk(re, 1, Len(re), tails, s,
                      [end |-> Least(tails[1]), open |-> [g \in 1..ngroups |-> 0],
                       caps |-> [g \in 1..ngroups |-> ""]]))

\* RegExp.prototype.exec from position from
Exec(re, ngroups, s, from) ==
    Leftmost(re, ngroups, s,
             Tails(re, 1, Len(re), s, from..(Len(s) + 1), 1..(Len(s) + 1)))

(***************************************************************************)
(* String.prototype and global functions the parser uses.                  *)
(***************************************************************************)
IndexIn(t, c) == CHOOSE i \in 1..Len(t) : SubSeq(t, i, i) = c

\* s with every character of from replaced by the one at its place in to
RECURSIVE MapChars(_, _, _)
MapChars(s, from, to) ==
    IF Len(s) = 0 THEN ""
    ELSE IF Len(s) = 1
    THEN (IF s \in Chars(from) THEN SubSeq(to, IndexIn(from, s), IndexIn(from, s)) ELSE s)
    ELSE MapChars(SubSeq(s, 1, Len(s) \div 2), from, to)
         \o MapChars(SubSeq(s, Len(s) \div 2 + 1, Len(s)), from, to)

toLowerCase(s) == MapChars(s, Uppers, Lowers)
toUpperCase(s) == MapChars(s, Lowers, Uppers)

\* s.includes(sub)
includes(s, sub) ==
    \E i \in 1..(Len(s) - Len(sub) + 1) : SubSeq(s, i, i + Len(sub) - 1) = sub

\* s.trim()
trim(s) ==
    LET inked == {i \in 1..Len(s) : SubSeq(s, i, i) \notin Space}
    IN IF inked = {} THEN ""
       ELSE SubSeq(s, CHOOSE i \in inked : \A o \in inked : i <= o,
                   CHOOSE i \in inked : \A o \in inked : i >= o)

\* parseInt(s, 10) of a string of digits
RECURSIVE parseInt(_)
parseInt(s) ==
    IF Len(s) = 0 THEN 0
    ELSE parseInt(SubSeq(s, 1, Len(s) - 1)) * 10 + (IndexIn(Digits, SubSeq(s, Len(s), Len(s))) - 1)

\* s with the match m in it replaced by by and what follows the match by rest
Spliced(s, m, by, rest) ==
    IF ~m.ok THEN s
    ELSE (IF m.index > 1 THEN SubSeq(s, 1, m.index - 1) ELSE "") \o by \o rest

\* what follows the match m in s
After(s, m) == IF m.ok THEN From(s, m.end) ELSE ""

\* s.replace(re, by) without the g flag: the first match only
ReplacedFirst(s, m, by) == Spliced(s, m, by, After(s, m))
replaceFirst(s, re, by) == ReplacedFirst(s, Exec(re, 0, s, 1), by)

\* s.replace(t, by) where t is a string: its first occurrence only
replaceText(s, t, by) == replaceFirst(s, Lit(t), by)

\* s.replace(re, by) with the g flag (re never matches the empty string here)
RECURSIVE replaceAll(_, _, _)
RECURSIVE ReplacedAll(_, _, _, _)
replaceAll(s, re, by) == ReplacedAll(s, re, by, Exec(re, 0, s, 1))
ReplacedAll(s, re, by, m) ==
    IF ~m.ok THEN s ELSE Spliced(s, m, by, replaceAll(After(s, m), re, by))

\* s.split(/\r?\n/): the pieces between the matches of the regex, which are
\* the line feeds, each with the carriage return before it if there is one
split(s) ==
    LET feeds == {i \in 1..Len(s) : SubSeq(s, i, i) = "\n"}
        \* where the k-th match ends: 0 for k = 0, and where the k-th starts
        feed(k) == IF k = 0 THEN 0
                   ELSE CHOOSE i \in feeds : Cardinality({j \in feeds : j < i}) = k - 1
        start(k) == IF k > Cardinality(feeds) THEN Len(s) + 1
                    ELSE IF CharAt(s, feed(k) - 1) = "\r" /\ feed(k) - 1 > feed(k - 1)
                    THEN feed(k) - 1 ELSE feed(k)
    IN [k \in 1..(Cardinality(feeds) + 1) |->
           IF start(k) > feed(k - 1) + 1 THEN SubSeq(s, feed(k - 1) + 1, start(k) - 1) ELSE ""]

(***************************************************************************)
(* Instants. new Date(text) is the engine's, not the repository's: it is   *)
(* given by its value on the texts the log lines below carry (V8: a month  *)
(* outside 1..12 or text that is no date gives an Invalid Date, whose      *)
(* getTime() is NaN). The server's time zone is taken to be UTC.           *)
(***************************************************************************)
NaN == -1
isNaN(t) == t = NaN
\* the instant at position p (0..99) of year y
Mk(y, p) == y * 100 + p
getFullYear(t) == t \div 100
\* date.setFullYear(y)
setFullYear(t, y) == Mk(y, t % 100)

\* texts that carry their year
DatedTexts ==
    [t \in {"2024-01-01T10:00:00Z", "2024-01-01 10:00:00", "2024-01-01  10:00:00"} |-> Mk(2024, 10)]
    @@ [t \in {"2024-01-01 10:00:00.123"} |-> Mk(2024, 11)]
    @@ [t \in {"2024-01-01T10:00:05Z", "2024-01-01 10:00:05", "2024-01-01  10:00:05",
               "Mon, 01 Jan 2024 10:00:05 +0000"} |-> Mk(2024, 12)]
    @@ [t \in {"1/1/2024 12:00:00 PM"} |-> Mk(2024, 13)]
\* texts without a year: their position within whatever year is appended
YearlessTexts == [t \in {"Oct 11 22:14:15"} |-> 80] @@ [t \in {"Dec 31 23:59:59"} |-> 99]

\* new Date(text).getTime()
DateParse(text) ==
    IF text \in DOMAIN DatedTexts THEN DatedTexts[text]
    ELSE IF Len(text) > 5
            /\ SubSeq(text, 1, Len(text) - 5) \in DOMAIN YearlessTexts
            /\ SubSeq(text, Len(text) - 4, Len(text) - 4) = " "
            /\ \A i \in (Len(text) - 3)..Len(text) : SubSeq(text, i, i) \in Digit
         THEN Mk(parseInt(SubSeq(text, Len(text) - 3, Len(text))),
                 YearlessTexts[SubSeq(text, 1, Len(text) - 5)])
    ELSE NaN

(***************************************************************************)
(* Levels.                                                                 *)
(***************************************************************************)
\* an inference that looks for the warning keywords before the error keywords
InferWarningFirst(message) ==
    LET lowerMessage == toLowerCase(message)
    IN IF includes(lowerMessage, "emergency") THEN "Emergency"
       ELSE IF includes(lowerMessage, "alert") THEN "Alert"
       ELSE IF includes(lowerMessage, "critical") \/ includes(lowerMessage, "crit") THEN "Critical"
       ELSE IF includes(lowerMessage, "warning") \/ includes(lowerMessage, "warn") THEN "Warning"
       ELSE IF includes(lowerMessage, "error") \/ includes(lowerMessage, "err")
               \/ includes(lowerMessage, "fail") \/ includes(lowerMessage, "failure") THEN "Error"
       ELSE IF includes(lowerMessage, "notice") THEN "Notice"
       ELSE IF includes(lowerMessage, "debug") THEN "Debug"
       ELSE IF includes(lowerMessage, "verbose") THEN "Verbose"
       ELSE "Information"

inferLevelFromMessage(message) ==
    LET lowerMessage == toLowerCase(message)
    IN IF includes(lowerMessage, "emergency") THEN "Emergency"
       ELSE IF includes(lowerMessage, "alert") THEN "Alert"
       ELSE IF includes(lowerMessage, "critical") \/ includes(lowerMessage, "crit") THEN "Critical"
       ELSE IF includes(lowerMessage, "error") \/ includes(lowerMessage, "err")
               \/ includes(lowerMessage, "fail") \/ includes(lowerMessage, "failure") THEN "Error"
       ELSE IF includes(lowerMessage, "warning") \/ includes(lowerMessage, "warn") THEN "Warning"
       ELSE IF includes(lowerMessage, "notice") THEN "Notice"
       ELSE IF includes(lowerMessage, "debug") THEN "Debug"
       ELSE IF includes(lowerMessage, "verbose") THEN "Verbose"
       ELSE "Information"

\* a mapping that takes the facility, priority / 8, for the severity
LevelFromFacility(priority) ==
    LET severity == priority \div 8
    IN CASE severity = 0 -> "Emergency"
         [] severity = 1 -> "Alert"
         [] severity = 2 -> "Critical"
         [] severity = 3 -> "Error"
         [] severity = 4 -> "Warning"
         [] severity = 5 -> "Notice"
         [] severity = 6 -> "Information"
         [] severity = 7 -> "Debug"
         [] OTHER -> "Information"

getLevelFromSyslogPriority(priority) ==
    LET severity == priority % 8
    IN CASE severity = 0 -> "Emergency"
         [] severity = 1 -> "Alert"
         [] severity = 2 -> "Critical"
         [] severity = 3 -> "Error"
         [] severity = 4 -> "Warning"
         [] severity = 5 -> "Notice"
         [] severity = 6 -> "Information"
         [] severity = 7 -> "Debug"
         [] OTHER -> "Information"

\* a parse that appends the current year and leaves it at that
DateParseThisYear(dateString, now) == DateParse(dateString \o " " \o ToString(getFullYear(now)))

robustDateParse(dateString, now) ==
    LET date == DateParse(dateString \o " " \o ToString(getFullYear(now)))
    IN IF ~isNaN(date) /\ date > now THEN setFullYear(date, getFullYear(now) - 1) ELSE date

mapGenericLevel(level) ==
    LET upperLevel == toUpperCase(level)
    IN IF includes(upperLevel, "INFO") THEN "Information"
       ELSE IF includes(upperLevel, "WARN") THEN "Warning"
       ELSE IF includes(upperLevel, "ERR") THEN "Error"
       ELSE IF includes(upperLevel, "CRIT") THEN "Critical"
       ELSE IF includes(upperLevel, "FATAL") THEN "Critical"
       ELSE IF includes(upperLevel, "ALERT") THEN "Alert"
       ELSE IF includes(upperLevel, "EMERG") THEN "Emergency"
       ELSE IF includes(upperLevel, "DEBUG") THEN "Debug"
       ELSE IF includes(upperLevel, "VERBOSE") THEN "Verbose"
       ELSE IF includes(upperLevel, "NOTICE") THEN "Notice"
       ELSE "Information"

mapWindowsLevel(level) ==
    LET lowerLevel == toLowerCase(level)
    IN CASE lowerLevel = "information" -> "Information"
         [] lowerLevel = "warning" -> "Warning"
         [] lowerLevel = "error" -> "Error"
         [] lowerLevel = "critical" -> "Critical"
         [] lowerLevel = "verbose" -> "Verbose"
         [] OTHER -> "Information"

(***************************************************************************)
(* The pattern registry.                                                   *)
(***************************************************************************)
Quote == {"\""}
\* [0-9T\:\.\-\+Z]
IsoCh == Digit \cup {"T", ":", ".", "-", "+", "Z"}
\* [\w\.\-]
NameCh == WordCh \cup {".", "-"}
Ws == Cls(Space, 1, -1)
Rest(n) == Cap(n, Not(LineTerm, 0, -1))
\* "?
Quoted == Cls(Quote, 0, 1)
\* \d{4}-\d{2}-\d{2}\s\d{2}:\d{2}:\d{2}
DateTimeRe ==
    Cls(Digit, 4, 4) \o Lit("-") \o Cls(Digit, 2, 2) \o Lit("-") \o Cls(Digit, 2, 2)
    \o Cls(Space, 1, 1) \o Cls(Digit, 2, 2) \o Lit(":") \o Cls(Digit, 2, 2) \o Lit(":")
    \o Cls(Digit, 2, 2)
\* ,\d{3}
MillisRe == Lit(",") \o Cls(Digit, 3, 3)

\* a key-value pattern that takes the level field in lower case only
KeyValueLowerCase ==
    [name |-> "KEY_VALUE_LOG", groups |-> 4,
     regex |-> Lit("time=") \o Quoted \o Cap(1, Not(Quote \cup Space, 1, -1)) \o Quoted \o Ws
               \o Lit("level=") \o Cap(2, Cls(Lower, 1, -1)) \o Ws
               \o Lit("source=") \o Quoted \o Cap(3, Not(Quote \cup Space, 1, -1)) \o Quoted \o Ws
               \o Lit("msg=\"") \o Cap(4, Not(Quote, 1, -1)) \o Lit("\"")]
KEY_VALUE_LOG ==
    [name |-> "KEY_VALUE_LOG", groups |-> 4,
     regex |-> Lit("time=") \o Quoted \o Cap(1, Not(Quote \cup Space, 1, -1)) \o Quoted \o Ws
               \o Lit("level=") \o Cap(2, Cls(Upper, 1, -1)) \o Ws
               \o Lit("source=") \o Quoted \o Cap(3, Not(Quote \cup Space, 1, -1)) \o Quoted \o Ws
               \o Lit("msg=\"") \o Cap(4, Not(Quote, 1, -1)) \o Lit("\"")]
SYSLOG_MODERN_V2 ==
    [name |-> "SYSLOG_MODERN_V2", groups |-> 4,
     regex |-> Bol \o Cap(1, Cls(IsoCh, 1, -1)) \o Ws \o Cap(2, Cls(NameCh, 1, -1)) \o Ws
               \o Cap(3, Cls(NameCh, 1, -1) \o Opt(Lit("[") \o Cls(Digit, 1, -1) \o Lit("]")))
               \o Lit(":") \o Ws \o Rest(4) \o Eol]
DPKG_LOG ==
    [name |-> "DPKG_LOG", groups |-> 2,
     regex |-> Bol \o Cap(1, DateTimeRe) \o Ws \o Rest(2) \o Eol]
RFC_5424 ==
    [name |-> "RFC_5424", groups |-> 8,
     regex |-> Bol \o Lit("<") \o Cap(1, Cls(Digit, 1, -1)) \o Lit(">1") \o Ws
               \o Cap(2, Cls(IsoCh, 1, -1)) \o Ws \o Cap(3, Cls(NameCh, 1, -1)) \o Ws
               \o Cap(4, Cls(NameCh, 1, -1)) \o Ws \o Cap(5, Cls(NameCh, 1, -1)) \o Ws
               \o Cap(6, Cls(NameCh, 1, -1)) \o Ws \o Cap(7, Cls(NameCh, 1, -1)) \o Ws
               \o Rest(8) \o Eol]
RFC_3164 ==
    [name |-> "RFC_3164", groups |-> 5,
     regex |-> Bol \o Lit("<") \o Cap(1, Cls(Digit, 1, -1)) \o Lit(">")
               \o Cap(2, Cls(Upper \cup Lower, 3, 3) \o Ws \o Cls(Digit, 1, 2) \o Ws
                         \o Cls(Digit, 2, 2) \o Lit(":") \o Cls(Digit, 2, 2) \o Lit(":")
                         \o Cls(Digit, 2, 2))
               \o Ws \o Cap(3, Cls(NameCh, 1, -1)) \o Ws \o Cap(4, Not({":"}, 1, -1)) \o Lit(":")
               \o Ws \o Rest(5) \o Eol]
WINDOWS_CSV ==
    [name |-> "WINDOWS_CSV", groups |-> 4,
     regex |-> Bol \o Quoted \o Cap(1, Not(Quote, 1, -1)) \o Quoted \o Lit(",")
               \o Quoted \o Cap(2, Cls(Digit \cup Space \cup {"/", ":", "A", "M", "P"}, 1, -1))
               \o Quoted \o Lit(",")
               \o Quoted \o Cap(3, Not(Quote, 1, -1)) \o Quoted \o Lit(",")
               \o Quoted \o Cls(Digit, 1, -1) \o Quoted \o Lit(",")
               \o Quoted \o Not(Quote, 0, -1) \o Quoted \o Lit(",")
               \o Quoted \o Cap(4, Not(Quote, 1, -1)) \o Quoted
               \o Not(LineTerm, 0, -1) \o Eol]
APP_LOG_1 ==
    [name |-> "APP_LOG_1", groups |-> 4,
     regex |-> Bol \o Cap(1, DateTimeRe \o Opt(MillisRe)) \o Ws \o Cap(2, Cls(Upper, 1, -1)) \o Ws
               \o Lit("[") \o Cap(3, Not({"]"}, 1, -1)) \o Lit("]") \o Ws \o Rest(4) \o Eol]
ISO_WITH_LEVEL ==
    [name |-> "ISO_WITH_LEVEL", groups |-> 3,
     regex |-> Bol \o Cap(1, Cls(IsoCh, 1, -1)) \o Ws \o Lit("[") \o Cap(2, Cls(Upper, 1, -1))
               \o Lit("]") \o Ws \o Rest(3) \o Eol]
FAIL2BAN_LOG ==
    [name |-> "FAIL2BAN_LOG", groups |-> 4,
     regex |-> Bol \o Cap(1, DateTimeRe \o MillisRe) \o Ws \o Cap(2, Cls(NameCh, 1, -1)) \o Ws
               \o Lit("[") \o Cls(Digit, 1, -1) \o Lit("]:") \o Ws \o Cap(3, Cls(Upper, 1, -1))
               \o Ws \o Rest(4) \o Eol]
CLOUD_INIT_LOG ==
    [name |-> "CLOUD_INIT_LOG", groups |-> 4,
     regex |-> Bol \o Cap(1, DateTimeRe \o MillisRe) \o Ws \o Lit("-") \o Ws
               \o Cap(2, Cls(NameCh, 1, -1)) \o Lit("[") \o Cap(3, Cls(Upper, 1, -1))
               \o Lit("]:") \o Ws \o Rest(4) \o Eol]
CLOUD_INIT_OUTPUT ==
    [name |-> "CLOUD_INIT_OUTPUT", groups |-> 2,
     regex |-> Bol \o Lit("Cloud-init v.") \o Lazy(LineTerm, 0, -1) \o Lit(" running '")
               \o Cap(1, Not({"'"}, 0, -1)) \o Lit("' at ")
               \o Cap(2, Cls(WordCh \cup Space \cup {",", ":"}, 1, -1) \o Cls(Space, 1, 1)
                         \o Lit("+") \o Cls(Digit, 4, 4))
               \o Lit(".")]

LOG_PATTERNS ==
    <<KEY_VALUE_LOG, SYSLOG_MODERN_V2, DPKG_LOG, RFC_5424, RFC_3164, WINDOWS_CSV, APP_LOG_1,
      ISO_WITH_LEVEL, FAIL2BAN_LOG, CLOUD_INIT_LOG, CLOUD_INIT_OUTPUT>>

\* pattern.map(match): the partial entry a pattern extracts; now is the
\* instant robustDateParse reads the clock
PatternMap(name, m, now) ==
    LET parts == m.parts
    IN CASE name = "KEY_VALUE_LOG" ->
              [timestamp |-> DateParse(parts[1]), level |-> mapGenericLevel(parts[2]),
               source |-> parts[3],
               message |-> trim(parts[4] \o " " \o From(m.input, Len(m.whole) + 1))]
         [] name = "SYSLOG_MODERN_V2" ->
              [timestamp |-> DateParse(parts[1]), level |-> inferLevelFromMessage(parts[4]),
               source |-> replaceFirst(parts[3], Lit("[") \o Cls(Digit, 1, -1) \o Lit("]"), ""),
               message |-> parts[4]]
         [] name = "DPKG_LOG" ->
              [timestamp |-> DateParse(parts[1]), level |-> inferLevelFromMessage(parts[2]),
               source |-> "dpkg", message |-> parts[2]]
         [] name = "RFC_5424" ->
              [timestamp |-> DateParse(parts[2]),
               level |-> getLevelFromSyslogPriority(parseInt(parts[1])),
               source |-> parts[4], message |-> parts[8]]
         [] name = "RFC_3164" ->
              [timestamp |-> robustDateParse(parts[2], now),
               level |-> getLevelFromSyslogPriority(parseInt(parts[1])),
               source |-> trim(parts[4]), message |-> trim(parts[5])]
         [] name = "WINDOWS_CSV" ->
              [level |-> mapWindowsLevel(parts[1]), timestamp |-> DateParse(parts[2]),
               source |-> parts[3], message |-> parts[4]]
         [] name = "APP_LOG_1" ->
              [timestamp |-> DateParse(replaceText(parts[1], ",", ".")),
               level |-> mapGenericLevel(parts[2]), source |-> parts[3], message |-> parts[4]]
         [] name = "ISO_WITH_LEVEL" ->
              [timestamp |-> DateParse(parts[1]), level |-> mapGenericLevel(parts[2]),
               source |-> "Application", message |-> parts[3]]
         [] name = "FAIL2BAN_LOG" ->
              [timestamp |-> DateParse(replaceText(parts[1], ",", ".")),
               source |-> parts[2], level |-> mapGenericLevel(parts[3]), message |-> parts[4]]
         [] name = "CLOUD_INIT_LOG" ->
              [timestamp |-> DateParse(replaceText(parts[1], ",", ".")),
               source |-> parts[2], level |-> mapGenericLevel(parts[3]), message |-> parts[4]]
         [] name = "CLOUD_INIT_OUTPUT" ->
              [timestamp |-> DateParse(parts[2]), level |-> "Information",
               source |-> "cloud-init:" \o parts[1], message |-> m.whole]

(***************************************************************************)
(* parseAptHistoryLog: the block extractor.                                *)
(***************************************************************************)
\* [\d\s:-]
AptDateCh == Digit \cup Space \cup {":", "-"}
blockRegex ==
    Lit("Start-Date: ") \o Cap(1, Cls(AptDateCh, 1, -1))
    \o Lit("\nCommandline: ") \o Cap(2, Not({"\n"}, 1, -1)) \o Lit("\n")
    \o Cap(3, Alt(<<Lit("Upgrade"), Lit("Install"), Lit("Remove")>>) \o Lit(":")
              \o Not({"\n"}, 1, -1)
              \o Star(Lit("\n") \o Ws \o Not(LineTerm, 1, 1) \o Not({"\n"}, 1, -1)))
    \o Lit("\nEnd-Date: ") \o Cap(4, Cls(AptDateCh, 1, -1))

\* the entry pushed for one match of blockRegex
AptEntry(match, filename) ==
    LET startDate == match.parts[1]
        commandline == match.parts[2]
        actions == match.parts[3]
    IN [filename |-> filename,
        timestamp |-> DateParse(trim(startDate)),
        level |-> "Information",
        source |-> "apt",
        message |-> "Command: " \o trim(commandline) \o "; Actions: "
                    \o trim(replaceAll(actions, Lit("\n") \o Ws, " "))]

\* the while loop over blockRegex.exec, resuming at lastIndex: the matches
RECURSIVE AptLoop(_, _)
RECURSIVE AptNext(_, _)
AptLoop(fileContent, lastIndex) == AptNext(fileContent, Exec(blockRegex, 4, fileContent, lastIndex))
\* one iteration: the match and those found from where it ends
AptNext(fileContent, match) ==
    IF ~match.ok THEN <<>> ELSE <<match>> \o AptLoop(fileContent, match.end)

\* entries unshifted instead of pushed: the last block first
AptEntriesReversed(matches, filename) ==
    [k \in DOMAIN matches |-> AptEntry(matches[Len(matches) + 1 - k], filename)]

\* an entry is pushed for every match of the loop
AptEntries(matches, filename) == [k \in DOMAIN matches |-> AptEntry(matches[k], filename)]
parseAptHistoryLog(fileContent, filename) == AptEntries(AptLoop(fileContent, 1), filename)

(***************************************************************************)
(* parseLogFile: one line of the scan.                                     *)
(***************************************************************************)
EmptyFileError == "The uploaded file is empty or contains only whitespace."
MostEntriesError == "Could not parse most entries. Please check the file format."
NoEntriesError ==
    "Could not parse any recognizable log entries. The file might be empty or in an unsupported format."

\* an attempt that stamps the entry with the clock instead of the parsed date
AttemptClocked(pattern, match, now) ==
    IF match.ok /\ ~isNaN(PatternMap(pattern.name, match, now).timestamp)
    THEN [PatternMap(pattern.name, match, now) EXCEPT !.timestamp = now]
    ELSE [timestamp |-> NaN]

\* what a pattern makes of a line: the partial entry of its map when its
\* regex matches, an entry without a timestamp when it does not
Attempt(pattern, match, now) ==
    IF match.ok THEN PatternMap(pattern.name, match, now) ELSE [timestamp |-> NaN]

\* an inner loop without its break: the last pattern with a valid timestamp
LastValid(patterns, attempts) ==
    LET valid == {i \in DOMAIN patterns : ~isNaN(attempts[i].timestamp)}
    IN IF valid = {} THEN [index |-> 0]
       ELSE [index |-> Most(valid), name |-> patterns[Most(valid)].name,
             entry |-> attempts[Most(valid)]]

\* the first pattern whose attempt has a valid timestamp, with the partial
\* entry it extracted; index 0 when there is none
FirstValid(patterns, attempts) ==
    LET valid == {i \in DOMAIN patterns : ~isNaN(attempts[i].timestamp)}
    IN IF valid = {} THEN [index |-> 0]
       ELSE [index |-> Least(valid), name |-> patterns[Least(valid)].name,
             entry |-> attempts[Least(valid)]]

\* an inner loop that gives up at the first pattern whose regex matches
TryFirstMatch(patterns, line, now) ==
    LET matching == {i \in DOMAIN patterns :
                        Exec(patterns[i].regex, patterns[i].groups, line, 1).ok}
    IN IF matching = {} THEN [index |-> 0]
       ELSE FirstValid(SubSeq(patterns, 1, Least(matching)),
                       [i \in 1..Least(matching) |->
                           IF i = Least(matching)
                           THEN Attempt(patterns[i],
                                        Exec(patterns[i].regex, patterns[i].groups, line, 1), now)
                           ELSE [timestamp |-> NaN]])

\* the inner loop over the patterns
TryPatterns(patterns, line, now) ==
    FirstValid(patterns,
               [i \in DOMAIN patterns |->
                   Attempt(patterns[i], Exec(patterns[i].regex, patterns[i].groups, line, 1), now)])

MatchLine(line, now) == TryPatterns(LOG_PATTERNS, line, now)

(***************************************************************************)
(* The files parsed: every sequence of at most MaxChunks chunks, and one   *)
(* single-line file for each further format.                               *)
(***************************************************************************)
MaxChunks == 3

AptBlockGood ==
    "Start-Date: 2024-01-01  10:00:00\nCommandline: apt install x\nInstall: x:amd64 (1.0)\nEnd-Date: 2024-01-01  10:00:05"
\* month 13: the block matches blockRegex, its Start-Date is no date
AptBlockBad ==
    "Start-Date: 2024-13-45  10:00:00\nCommandline: apt upgrade\nUpgrade: y:amd64 (1.0, 1.1)\nEnd-Date: 2024-13-45  10:00:05"

\* a block with two action lines after its command line: the action
\* Install: x:amd64 (1.0) and the line second
AptCommand == "apt full-upgrade"
AptInstall == "Install: x:amd64 (1.0)"
\* a second action of the transaction
AptUpgrade == "Upgrade: y:amd64 (1.0, 1.1)"
\* the first action carried over to an indented line
AptWrapped == "  z:amd64 (2.0)"
AptBlockOf(second) ==
    "Start-Date: 2024-01-01  10:00:00\nCommandline: " \o AptCommand \o "\n" \o AptInstall \o "\n"
    \o second \o "\nEnd-Date: 2024-01-01  10:00:05"
AptTwoActions == {AptBlockOf(AptUpgrade), AptBlockOf(AptWrapped)}

\* the lines the files below are made of
Chunks ==
    {"hello world",
     "2024-01-01 10:00:05 WARN [auth] disk error",
     "<34>Oct 11 22:14:15 host1 su: 'su root' failed",
     ""}

\* files of one or two lines: a line for each pattern of the registry, lines
\* that no pattern parses, and a blank file
Singles ==
    {"time=2024-01-01T10:00:00Z level=ERROR source=srv msg=\"x\"",
     "2024-01-01T10:00:05Z host1 sshd[42]: Failed login",
     "2024-01-01 10:00:00 startup archives unpack",
     "2024-01-01 10:00:00,123 INFO [auth] login ok",
     "2024-01-01T10:00:00Z [ERROR] boom",
     "<165>1 2024-01-01T10:00:05Z host1 su - ID47 - done",
     "\"Warning\",\"1/1/2024 12:00:00 PM\",\"Disk\",\"7\",\"None\",\"Low space\"",
     "2024-01-01 10:00:00,123 fail2ban.server [1349]: INFO started",
     "2024-01-01 10:00:00,123 - log_util.py[DEBUG]: msg",
     "Cloud-init v. 25.1 running 'init' at Mon, 01 Jan 2024 10:00:05 +0000. Up 5 seconds.",
     "2024-01-01 10:00:05 time=bogus level=INFO source=s msg=\"m\"",
     "hello\r\nworld",
     "level=ERROR msg=\"x\"",
     "2024-13-45 10:00:00 bad month",
     "2024-13-45 10:00:00 bad month\n2024-01-01 10:00:05 WARN [auth] disk error",
     "time=2024-01-01T10:00:00Z level=ERROR source=srv msg=\"x\"\nlevel=ERROR msg=\"x\"",
     "2024-01-01 10:00:00 startup archives unpack\n    retry failed: timeout",
     "2024-01-01 10:00:00 startup archives unpack\n   \nhello world",
     "2024-01-01 10:00:00 ",
     "<34>Oct 11 22:14:15 host1  : x",
     "   "}

\* files with blocks of the package manager's history
AptFiles ==
    {AptBlockGood,
     AptBlockBad,
     AptBlockGood \o "\n\n" \o AptBlockBad,
     AptBlockBad \o "\n\n" \o AptBlockGood,
     "hello world\n" \o AptBlockGood,
     "Start-Date: soon\nhello world"}
    \cup AptTwoActions

RECURSIVE Join(_)
Join(chunks) ==
    IF Len(chunks) = 1 THEN chunks[1] ELSE chunks[1] \o "\n" \o Join(Tail(chunks))

Contents ==
    {Join(c) : c \in UNION {[1..n -> Chunks] : n \in 1..MaxChunks}} \cup Singles \cup AptFiles

Filenames == {"app.log", "apt-history.log"}

\* the clock: before and after 11 October 2025
Nows == {Mk(2025, 50), Mk(2025, 90)}

(***************************************************************************)
(* Single lines: syslog lines of every priority, syslog lines of both      *)
(* yearless timestamps, and messages holding the level keywords.           *)
(***************************************************************************)
MaxPriority == 191

Rfc5424Line(n) == "<" \o ToString(n) \o ">1 2024-01-01T10:00:05Z host1 su - ID47 - done"
Rfc3164Line(n, stamp) == "<" \o ToString(n) \o ">" \o stamp \o " host1 su: 'su root' ok"

PriorityFiles ==
    {Rfc5424Line(n) : n \in 0..MaxPriority}
    \cup {Rfc3164Line(n, "Oct 11 22:14:15") : n \in 0..MaxPriority}

StampFiles == {Rfc3164Line(34, stamp) : stamp \in DOMAIN YearlessTexts}

\* the clock of the lines with a yearless timestamp: in January, before, at
\* and after 11 October 2025
StampNows == Nows \cup {Mk(2025, 1), Mk(2025, 80)}

Keywords ==
    {"emergency", "alert", "critical", "crit", "error", "err", "fail", "failure", "warning",
     "warn", "notice", "debug", "verbose"}

\* messages with one keyword, in lower and in upper case, with two keywords
\* in either order, in mixed case, and with none
KeywordTexts ==
    Keywords
    \cup {toUpperCase(w) : w \in Keywords}
    \cup {w \o " then " \o v : w, v \in Keywords}
    \cup {"Warning: disk Error", "Disk Failure", "all quiet", "noted"}

\* each message as a line of its own and as the text of a dpkg line
KeywordFiles == KeywordTexts \cup {"2024-01-01 10:00:00 " \o t : t \in KeywordTexts}

(***************************************************************************)
(* parseLogFile: the scan and its verdict.                                 *)
(***************************************************************************)
\* an iteration that leaves lastKnownTimestamp as it was
ScannedStale(st, line, filename, hit) ==
    IF hit.index # 0
    THEN [parsedLogs |-> Append(st.parsedLogs,
              [filename |-> filename,
               timestamp |-> hit.entry.timestamp,
               level |-> IF hit.entry.level = "" THEN "Information" ELSE hit.entry.level,
               source |-> IF hit.entry.source = "" THEN "Unknown" ELSE hit.entry.source,
               message |-> IF hit.entry.message = "" THEN line ELSE hit.entry.message]),
          via |-> Append(st.via, hit.name),
          lastKnownTimestamp |-> st.lastKnownTimestamp,
          successfulParses |-> st.successfulParses + 1]
    ELSE [parsedLogs |-> Append(st.parsedLogs,
              [filename |-> filename,
               timestamp |-> st.lastKnownTimestamp,
               level |-> inferLevelFromMessage(line),
               source |-> "Unknown",
               message |-> line]),
          via |-> Append(st.via, "fallback"),
          lastKnownTimestamp |-> st.lastKnownTimestamp,
          successfulParses |-> st.successfulParses]

\* an iteration that pushes the partial entry as the pattern extracted it
ScannedRaw(st, line, filename, hit) ==
    IF hit.index # 0
    THEN [parsedLogs |-> Append(st.parsedLogs,
              [filename |-> filename,
               timestamp |-> hit.entry.timestamp,
               level |-> hit.entry.level,
               source |-> hit.entry.source,
               message |-> hit.entry.message]),
          via |-> Append(st.via, hit.name),
          lastKnownTimestamp |-> hit.entry.timestamp,
          successfulParses |-> st.successfulParses + 1]
    ELSE [parsedLogs |-> Append(st.parsedLogs,
              [filename |-> filename,
               timestamp |-> st.lastKnownTimestamp,
               level |-> inferLevelFromMessage(line),
               source |-> "Unknown",
               message |-> line]),
          via |-> Append(st.via, "fallback"),
          lastKnownTimestamp |-> st.lastKnownTimestamp,
          successfulParses |-> st.successfulParses]

\* One iteration of the for loop over lines, for a line that is not blank;
\* st holds the loop's variables and via, the history of which pattern
\* produced each entry; hit is what the inner loop found.
Scanned(st, line, filename, hit) ==
    IF hit.index # 0
    THEN [parsedLogs |-> Append(st.parsedLogs,
              [filename |-> filename,
               timestamp |-> hit.entry.timestamp,
               level |-> IF hit.entry.level = "" THEN "Information" ELSE hit.entry.level,
               source |-> IF hit.entry.source = "" THEN "Unknown" ELSE hit.entry.source,
               message |-> IF hit.entry.message = "" THEN line ELSE hit.entry.message]),
          via |-> Append(st.via, hit.name),
          lastKnownTimestamp |-> hit.entry.timestamp,
          successfulParses |-> st.successfulParses + 1]
    ELSE [parsedLogs |-> Append(st.parsedLogs,
              [filename |-> filename,
               timestamp |-> st.lastKnownTimestamp,
               level |-> inferLevelFromMessage(line),
               source |-> "Unknown",
               message |-> line]),
          via |-> Append(st.via, "fallback"),
          lastKnownTimestamp |-> st.lastKnownTimestamp,
          successfulParses |-> st.successfulParses]

\* an iteration without the test for blank lines
ScanStepBlank(st, line, filename, now) == Scanned(st, line, filename, MatchLine(line, now))

\* one iteration of the for loop over lines
ScanStep(st, line, filename, now) ==
    IF trim(line) = "" THEN st ELSE Scanned(st, line, filename, MatchLine(line, now))

\* checks after the loop without the one on generic matches
VerdictWithoutThreshold(logs, parses) ==
    IF Len(logs) = 0 THEN NoEntriesError ELSE ""

\* checks after the loop with the ratio tested whatever the number of parses
VerdictByRatio(logs, parses) ==
    LET genericMatches == Cardinality({i \in DOMAIN logs : logs[i].source = "Unknown"})
    IN IF Len(logs) # 0 /\ 2 * genericMatches > Len(logs) THEN MostEntriesError
       ELSE IF Len(logs) = 0 THEN NoEntriesError
       ELSE ""

\* the checks after the loop: the error thrown, "" when the entries are returned
ScanVerdict(logs, parses) ==
    LET genericMatches == Cardinality({i \in DOMAIN logs : logs[i].source = "Unknown"})
    IN IF parses = 0 /\ Len(logs) # 0 /\ 2 * genericMatches > Len(logs) THEN MostEntriesError
       ELSE IF Len(logs) = 0 THEN NoEntriesError
       ELSE ""

\* true when the block extractor runs and finds at least one block
AptReturns(content, name) ==
    (includes(name, "apt-history.log") \/ includes(content, "Start-Date:"))
    /\ Len(parseAptHistoryLog(content, name)) > 0

Pending == [kind |-> "pending", records |-> <<>>, error |-> ""]
Returned(records) == [kind |-> "returned", records |-> records, error |-> ""]
\* a throw carries the error and nothing else
Threw(error) == [kind |-> "threw", records |-> <<>>, error |-> error]

\* a scan that starts without a timestamp to fall back on
ScanStartUnset(now) ==
    [parsedLogs |-> <<>>, via |-> <<>>, lastKnownTimestamp |-> NaN, successfulParses |-> 0]

\* the loop's variables before the first line; now is what new Date() gives
ScanStart(now) ==
    [parsedLogs |-> <<>>, via |-> <<>>, lastKnownTimestamp |-> now, successfulParses |-> 0]

\* the for loop over lines from line i on
RECURSIVE ScanAll(_, _, _, _, _)
ScanAll(lines, i, st, filename, now) ==
    IF i > Len(lines) THEN st
    ELSE ScanAll(lines, i + 1, ScanStep(st, lines[i], filename, now), filename, now)

\* what the invocation ends with after the loop
Concluded(st) ==
    IF ScanVerdict(st.parsedLogs, st.successfulParses) # ""
    THEN Threw(ScanVerdict(st.parsedLogs, st.successfulParses))
    ELSE Returned(st.parsedLogs)

\* parseLogFile run to its end at the instant now
parseLogFile(fileContent, filename, now) ==
    IF trim(fileContent) = "" THEN Threw(EmptyFileError)
    ELSE IF AptReturns(fileContent, filename)
    THEN Returned(parseAptHistoryLog(fileContent, filename))
    ELSE Concluded(ScanAll(split(fileContent), 1, ScanStart(now), filename, now))

(***************************************************************************)
(* The page: the collection of entries and what it does with a parsed file.*)
(***************************************************************************)
MaxUploads == 3

\* the files a user uploads
PageFiles ==
    {[name |-> "dpkg.log", content |-> "2024-01-01 10:00:00 startup archives unpack"],
     [name |-> "auth.log", content |-> "2024-01-01T10:00:05Z host1 sshd[42]: Failed login"],
     [name |-> "app.log", content |-> "2024-01-01 10:00:05 WARN [auth] disk error\nhello world"],
     [name |-> "notes.txt", content |-> "hello world"],
     [name |-> "history.log", content |-> AptBlockBad],
     [name |-> "empty.log", content |-> ""]}

\* logs.sort((a, b) => a.timestamp - b.timestamp) on valid timestamps: the
\* sort is stable, entries of equal timestamp keep their order
SortByTimestamp(logs) ==
    LET rank(i) == Cardinality({j \in DOMAIN logs :
                       \/ logs[j].timestamp < logs[i].timestamp
                       \/ logs[j].timestamp = logs[i].timestamp /\ j < i})
    IN [k \in DOMAIN logs |-> logs[CHOOSE i \in DOMAIN logs : rank(i) = k - 1]]

\* The comparator's value is NaN when one of the two timestamps is an Invalid
\* Date. It is then no consistent comparator, and the order Array.prototype.sort
\* leaves the entries in is implementation-defined: any order of the entries.
Sortings(logs) ==
    IF \A i \in DOMAIN logs : ~isNaN(logs[i].timestamp) THEN {SortByTimestamp(logs)}
    ELSE {[k \in DOMAIN logs |-> logs[p[k]]] : p \in Permutations(DOMAIN logs)}

\* {...log, id}
WithId(log, id) ==
    [id |-> id, filename |-> log.filename, timestamp |-> log.timestamp, level |-> log.level,
     source |-> log.source, message |-> log.message]

\* handleLogsParsed: the collections that merging newLogs into entries can give
CombinedLogs(entries, newLogs) ==
    LET lastId == IF Len(entries) > 0 THEN entries[Len(entries)].id ELSE -1
        logsWithUniqueIds == [index \in DOMAIN newLogs |-> WithId(newLogs[index], lastId + index)]
    IN Sortings(entries \o logsWithUniqueIds)

NoToast == [title |-> ""]
ParsedToast(added, total) ==
    [title |-> "Logs parsed successfully", added |-> added, total |-> total]
ErrorToast(errorMessage) == [title |-> "Error parsing log file", description |-> errorMessage]

\* what reader.onload ends with for the text content of a file
Processed(file, now) ==
    IF file.content = "" THEN Threw("File is empty.")
    ELSE parseLogFile(file.content, file.name, now)

(***************************************************************************)
(* The filter panel: the options checked and the options shown available.  *)
(* The arrays of available options are read for membership only and are    *)
(* sets here.                                                              *)
(***************************************************************************)
MaxChecked == 2

ALL_LEVELS ==
    <<"Information", "Warning", "Error", "Critical", "Verbose", "Debug", "Notice", "Emergency",
      "Alert">>

NoFilters == [levels |-> <<>>, sources |-> <<>>]

\* useState<number | null>(null): no event is selected
NoEvent == -1

\* no second invocation was made
NotCalled == [pc |-> "none"]

\* array.includes(x)
Includes(array, x) == \E i \in DOMAIN array : array[i] = x

\* array.filter(y => y !== x)
Without(array, x) == SelectSeq(array, LAMBDA y : y # x)

initialAvailableLevels(logs) == {logs[i].level : i \in DOMAIN logs}

\* groupedSources.flatMap(g => g.sources): the sources of the files' groups
groupedSources(logs) == {logs[i].source : i \in DOMAIN logs}

filteredEntries(logs, f) ==
    SelectSeq(logs, LAMBDA entry :
        /\ Len(f.levels) = 0 \/ Includes(f.levels, entry.level)
        /\ Len(f.sources) = 0 \/ Includes(f.sources, entry.source))

\* the entries the levels checked leave, all entries when none is checked
levelFilteredEntries(logs, f) ==
    IF Len(f.levels) > 0 THEN SelectSeq(logs, LAMBDA entry : Includes(f.levels, entry.level))
    ELSE logs

\* the entries the sources checked leave, all entries when none is checked
sourceFilteredEntries(logs, f) ==
    IF Len(f.sources) > 0 THEN SelectSeq(logs, LAMBDA entry : Includes(f.sources, entry.source))
    ELSE logs

availableLevels(logs, f) ==
    IF Len(f.levels) > 0 /\ Len(f.sources) > 0
    THEN {filteredEntries(logs, f)[i].level : i \in DOMAIN filteredEntries(logs, f)}
    ELSE IF Len(f.sources) > 0
    THEN {sourceFilteredEntries(logs, f)[i].level : i \in DOMAIN sourceFilteredEntries(logs, f)}
    ELSE initialAvailableLevels(logs)

availableSources(logs, f) ==
    IF Len(f.levels) > 0 /\ Len(f.sources) > 0
    THEN {filteredEntries(logs, f)[i].source : i \in DOMAIN filteredEntries(logs, f)}
    ELSE IF Len(f.levels) > 0
    THEN {levelFilteredEntries(logs, f)[i].source : i \in DOMAIN levelFilteredEntries(logs, f)}
    ELSE groupedSources(logs)

\* handleLevelChange(level, checked): the filters after it
LevelChanged(f, level, checked) ==
    [f EXCEPT !.levels = IF checked THEN Append(f.levels, level) ELSE Without(f.levels, level)]

\* handleSourceChange(source, checked): the filters after it
SourceChanged(f, source, checked) ==
    [f EXCEPT !.sources = IF checked THEN Append(f.sources, source) ELSE Without(f.sources, source)]

\* The page after the files of a session were uploaded one after the other:
\* the collection, the last toast and the number of files merged.
RECURSIVE Sessions(_, _)
Sessions(files, now) ==
    IF files = <<>> THEN {[logEntries |-> <<>>, toast |-> NoToast, uploads |-> 0]}
    ELSE UNION {
        IF Processed(files[Len(files)], now).kind = "returned"
        THEN {[logEntries |-> combinedLogs,
               toast |-> ParsedToast(Len(Processed(files[Len(files)], now).records),
                                     Len(combinedLogs)),
               uploads |-> page.uploads + 1] :
                 combinedLogs \in UNION {CombinedLogs(page.logEntries, newLogs) :
                     newLogs \in Sortings(Processed(files[Len(files)], now).records)}}
        ELSE {[page EXCEPT !.toast = ErrorToast(Processed(files[Len(files)], now).error)]} :
        page \in Sessions(Front(files), now)}

VARIABLES
    fileContent, filename,   \* the arguments of parseLogFile
    clock,                   \* what new Date() gives
    pc,                      \* where the invocation is: entry, scan, done; idle on the page
    lines, idx,              \* the lines of the file and the loop's position
    parsedLogs, lastKnownTimestamp, successfulParses,
    via,                     \* history: the pattern (or fallback) behind each entry built
    outcome,                 \* what the invocation returned or threw
    logEntries,              \* the page's collection
    toast,                   \* the last toast shown
    uploads,                 \* how many files were merged
    filters,                 \* the levels and the sources checked in the filter panel
    selectedEventId,         \* the id of the event selected, NoEvent when none is
    isLoading,               \* the uploader's loading flag
    flights,                 \* the uploads started, each with its stage and its callbacks
    sibling                  \* a second invocation of parseLogFile, running beside the first

parserVars == <<fileContent, filename, clock, pc, lines, idx, parsedLogs, lastKnownTimestamp,
                successfulParses, via, outcome>>
pageVars == <<logEntries, toast, uploads, filters, selectedEventId, isLoading, flights,
             sibling>>
vars == <<parserVars, pageVars>>

(***************************************************************************)
(* One invocation of parseLogFile, step by step, on each file.             *)
(***************************************************************************)
Init ==
    /\ fileContent \in Contents
    /\ filename \in Filenames
    /\ clock \in Nows
    /\ pc = "entry"
    /\ lines = <<>>
    /\ idx = 0
    /\ parsedLogs = <<>>
    /\ lastKnownTimestamp = NaN
    /\ successfulParses = 0
    /\ via = <<>>
    /\ outcome = Pending
    /\ logEntries = <<>>
    /\ toast = NoToast
    /\ uploads = 0
    /\ filters = NoFilters
    /\ selectedEventId = NoEvent
    /\ isLoading = FALSE
    /\ flights = <<>>
    /\ sibling = NotCalled

\* time passes while the file is parsed
Tick ==
    /\ pc \in {"entry", "scan"}
    /\ \E later \in Nows : later > clock /\ clock' = later
    /\ UNCHANGED <<fileContent, filename, pc, lines, idx, parsedLogs, lastKnownTimestamp,
                   successfulParses, via, outcome, pageVars>>

\* a blank file that is handed to the scan instead of being rejected
ScanBlank ==
    /\ pc = "entry"
    /\ trim(fileContent) = ""
    /\ lines' = split(fileContent)
    /\ idx' = 1
    /\ parsedLogs' = ScanStart(clock).parsedLogs
    /\ lastKnownTimestamp' = ScanStart(clock).lastKnownTimestamp
    /\ successfulParses' = ScanStart(clock).successfulParses
    /\ pc' = "scan"
    /\ UNCHANGED <<fileContent, filename, clock, via, outcome, pageVars>>

\* lines 238-240
RejectEmpty ==
    /\ pc = "entry"
    /\ trim(fileContent) = ""
    /\ pc' = "done"
    /\ outcome' = Threw(EmptyFileError)
    /\ UNCHANGED <<fileContent, filename, clock, lines, idx, parsedLogs, lastKnownTimestamp,
                   successfulParses, via, pageVars>>

\* blocks that do not end the invocation: the file is scanned after them
ReturnAptThenScan ==
    /\ pc = "entry"
    /\ trim(fileContent) # ""
    /\ AptReturns(fileContent, filename)
    /\ pc' = "scan"
    /\ lines' = split(fileContent)
    /\ idx' = 1
    /\ \E aptEntries \in {parseAptHistoryLog(fileContent, filename)} :
          /\ parsedLogs' = aptEntries
          /\ via' = [k \in DOMAIN aptEntries |-> "APT_BLOCK"]
          /\ successfulParses' = Len(aptEntries)
    /\ lastKnownTimestamp' = clock
    /\ UNCHANGED <<fileContent, filename, clock, outcome, pageVars>>

\* lines 243-248: the entries of the blocks are returned; via names them
ReturnAptEntries ==
    /\ pc = "entry"
    /\ trim(fileContent) # ""
    /\ AptReturns(fileContent, filename)
    /\ pc' = "done"
    /\ \E aptEntries \in {parseAptHistoryLog(fileContent, filename)} :
          /\ outcome' = Returned(aptEntries)
          /\ via' = [k \in DOMAIN aptEntries |-> "APT_BLOCK"]
    /\ UNCHANGED <<fileContent, filename, clock, lines, idx, parsedLogs, lastKnownTimestamp,
                   successfulParses, pageVars>>

\* lines 250-254
BeginScan ==
    /\ pc = "entry"
    /\ trim(fileContent) # ""
    /\ ~AptReturns(fileContent, filename)
    /\ lines' = split(fileContent)
    /\ idx' = 1
    /\ parsedLogs' = ScanStart(clock).parsedLogs
    /\ lastKnownTimestamp' = ScanStart(clock).lastKnownTimestamp
    /\ successfulParses' = ScanStart(clock).successfulParses
    /\ pc' = "scan"
    /\ UNCHANGED <<fileContent, filename, clock, via, outcome, pageVars>>

\* an iteration without the try: the Invalid Date of a pattern that matched
\* ends the invocation with an error
ScanLineThrowing ==
    /\ pc = "scan"
    /\ idx <= Len(lines)
    /\ \E st \in {ScanStep([parsedLogs |-> parsedLogs, via |-> via,
                              lastKnownTimestamp |-> lastKnownTimestamp,
                              successfulParses |-> successfulParses],
                             lines[idx], filename, clock)} :
          /\ parsedLogs' = st.parsedLogs
          /\ via' = st.via
          /\ lastKnownTimestamp' = st.lastKnownTimestamp
          /\ successfulParses' = st.successfulParses
          /\ IF st.via # via /\ st.via[Len(st.via)] = "fallback"
                 /\ \E i \in DOMAIN LOG_PATTERNS :
                        Exec(LOG_PATTERNS[i].regex, LOG_PATTERNS[i].groups, lines[idx], 1).ok
             THEN pc' = "done" /\ outcome' = Threw("Invalid time value")
             ELSE UNCHANGED <<pc, outcome>>
    /\ idx' = idx + 1
    /\ UNCHANGED <<fileContent, filename, clock, lines, pageVars>>

\* lines 256-293, one iteration
ScanLine ==
    /\ pc = "scan"
    /\ idx <= Len(lines)
    /\ \E st \in {ScanStep([parsedLogs |-> parsedLogs, via |-> via,
                              lastKnownTimestamp |-> lastKnownTimestamp,
                              successfulParses |-> successfulParses],
                             lines[idx], filename, clock)} :
          /\ parsedLogs' = st.parsedLogs
          /\ via' = st.via
          /\ lastKnownTimestamp' = st.lastKnownTimestamp
          /\ successfulParses' = st.successfulParses
    /\ idx' = idx + 1
    /\ UNCHANGED <<fileContent, filename, clock, pc, lines, outcome, pageVars>>

\* a throw that hands the entries built so far to the caller
ThrowWithRecords ==
    /\ pc = "scan"
    /\ idx > Len(lines)
    /\ ScanVerdict(parsedLogs, successfulParses) # ""
    /\ pc' = "done"
    /\ outcome' = [kind |-> "threw", records |-> parsedLogs,
                   error |-> ScanVerdict(parsedLogs, successfulParses)]
    /\ UNCHANGED <<fileContent, filename, clock, lines, idx, parsedLogs, lastKnownTimestamp,
                   successfulParses, via, pageVars>>

\* lines 295-305
ThrowAfterScan ==
    /\ pc = "scan"
    /\ idx > Len(lines)
    /\ ScanVerdict(parsedLogs, successfulParses) # ""
    /\ pc' = "done"
    /\ outcome' = Threw(ScanVerdict(parsedLogs, successfulParses))
    /\ UNCHANGED <<fileContent, filename, clock, lines, idx, parsedLogs, lastKnownTimestamp,
                   successfulParses, via, pageVars>>

\* line 307
ReturnParsedLogs ==
    /\ pc = "scan"
    /\ idx > Len(lines)
    /\ ScanVerdict(parsedLogs, successfulParses) = ""
    /\ pc' = "done"
    /\ outcome' = Returned(parsedLogs)
    /\ UNCHANGED <<fileContent, filename, clock, lines, idx, parsedLogs, lastKnownTimestamp,
                   successfulParses, via, pageVars>>

Next ==
    \/ Tick
    \/ RejectEmpty
    \/ ReturnAptEntries
    \/ BeginScan
    \/ ScanLine
    \/ ThrowAfterScan
    \/ ReturnParsedLogs

Spec == Init /\ [][Next]_vars

(***************************************************************************)
(* One invocation of parseLogFile on each single-line file.                *)
(***************************************************************************)
InitLines ==
    /\ \/ fileContent \in PriorityFiles \cup KeywordFiles /\ clock = Mk(2025, 90)
       \/ fileContent \in StampFiles /\ clock \in StampNows
    /\ filename = "app.log"
    /\ pc = "entry"
    /\ lines = <<>>
    /\ idx = 0
    /\ parsedLogs = <<>>
    /\ lastKnownTimestamp = NaN
    /\ successfulParses = 0
    /\ via = <<>>
    /\ outcome = Pending
    /\ logEntries = <<>>
    /\ toast = NoToast
    /\ uploads = 0
    /\ filters = NoFilters
    /\ selectedEventId = NoEvent
    /\ isLoading = FALSE
    /\ flights = <<>>
    /\ sibling = NotCalled

NextLines ==
    \/ Tick
    \/ BeginScan
    \/ ScanLine
    \/ ThrowAfterScan
    \/ ReturnParsedLogs

SpecLines == InitLines /\ [][NextLines]_vars

(***************************************************************************)
(* Two invocations of parseLogFile side by side: the first as above, the   *)
(* second, with its own arguments and local variables, called at any       *)
(* moment and stepping between the steps of the first. The clock stands    *)
(* still.                                                                  *)
(***************************************************************************)
\* the files of the two invocations: a parsed line before and after a line
\* that no pattern parses, no parsed line, a block, a blank file
PairContents ==
    {"2024-01-01 10:00:05 WARN [auth] disk error\nhello world",
     "hello world\n2024-01-01 10:00:00 startup archives unpack",
     "hello world",
     AptBlockGood,
     "   "}

\* an invocation at its entry
Called(content, name) ==
    [pc |-> "entry", fileContent |-> content, filename |-> name, lines |-> <<>>, idx |-> 0,
     parsedLogs |-> <<>>, via |-> <<>>, lastKnownTimestamp |-> NaN, successfulParses |-> 0,
     outcome |-> Pending]

\* lines 238-254 for an invocation at its entry
Entered(inv, now) ==
    IF trim(inv.fileContent) = ""
    THEN [inv EXCEPT !.pc = "done", !.outcome = Threw(EmptyFileError)]
    ELSE IF AptReturns(inv.fileContent, inv.filename)
    THEN [inv EXCEPT !.pc = "done",
                     !.outcome = Returned(parseAptHistoryLog(inv.fileContent, inv.filename))]
    ELSE [inv EXCEPT !.pc = "scan", !.lines = split(inv.fileContent), !.idx = 1,
                     !.parsedLogs = ScanStart(now).parsedLogs,
                     !.via = ScanStart(now).via,
                     !.lastKnownTimestamp = ScanStart(now).lastKnownTimestamp,
                     !.successfulParses = ScanStart(now).successfulParses]

\* lines 256-293, one iteration, for an invocation in its scan; st is what
\* ScanStep gives
Stepped(inv, st) ==
    [inv EXCEPT !.idx = inv.idx + 1, !.parsedLogs = st.parsedLogs, !.via = st.via,
                !.lastKnownTimestamp = st.lastKnownTimestamp,
                !.successfulParses = st.successfulParses]

InitPair ==
    /\ fileContent \in PairContents
    /\ filename = "first.log"
    /\ clock \in Nows
    /\ pc = "entry"
    /\ lines = <<>>
    /\ idx = 0
    /\ parsedLogs = <<>>
    /\ lastKnownTimestamp = NaN
    /\ successfulParses = 0
    /\ via = <<>>
    /\ outcome = Pending
    /\ logEntries = <<>>
    /\ toast = NoToast
    /\ uploads = 0
    /\ filters = NoFilters
    /\ selectedEventId = NoEvent
    /\ isLoading = FALSE
    /\ flights = <<>>
    /\ sibling = NotCalled

\* parseLogFile is called a second time
SiblingCall ==
    /\ sibling.pc = "none"
    /\ \E content \in PairContents : sibling' = Called(content, "second.log")
    /\ UNCHANGED <<parserVars, logEntries, toast, uploads, filters, selectedEventId, isLoading,
                   flights>>

\* lines 238-254 of the second invocation
SiblingEnter ==
    /\ sibling.pc = "entry"
    /\ sibling' = Entered(sibling, clock)
    /\ UNCHANGED <<parserVars, logEntries, toast, uploads, filters, selectedEventId, isLoading,
                   flights>>

\* an iteration of the second invocation on a last known timestamp that the
\* two invocations share
SiblingScanShared ==
    /\ sibling.pc = "scan"
    /\ sibling.idx <= Len(sibling.lines)
    /\ \E st \in {ScanStep([parsedLogs |-> sibling.parsedLogs, via |-> sibling.via,
                              lastKnownTimestamp |->
                                  IF pc = "scan" THEN lastKnownTimestamp
                                  ELSE sibling.lastKnownTimestamp,
                              successfulParses |-> sibling.successfulParses],
                             sibling.lines[sibling.idx], sibling.filename, clock)} :
          sibling' = Stepped(sibling, st)
    /\ UNCHANGED <<parserVars, logEntries, toast, uploads, filters, selectedEventId, isLoading,
                   flights>>

\* lines 256-293 of the second invocation, one iteration
SiblingScanLine ==
    /\ sibling.pc = "scan"
    /\ sibling.idx <= Len(sibling.lines)
    /\ \E st \in {ScanStep([parsedLogs |-> sibling.parsedLogs, via |-> sibling.via,
                              lastKnownTimestamp |-> sibling.lastKnownTimestamp,
                              successfulParses |-> sibling.successfulParses],
                             sibling.lines[sibling.idx], sibling.filename, clock)} :
          sibling' = Stepped(sibling, st)
    /\ UNCHANGED <<parserVars, logEntries, toast, uploads, filters, selectedEventId, isLoading,
                   flights>>

\* lines 295-307 of the second invocation
SiblingConclude ==
    /\ sibling.pc = "scan"
    /\ sibling.idx > Len(sibling.lines)
    /\ sibling' = [sibling EXCEPT !.pc = "done", !.outcome = Concluded(sibling)]
    /\ UNCHANGED <<parserVars, logEntries, toast, uploads, filters, selectedEventId, isLoading,
                   flights>>

NextPair ==
    \/ RejectEmpty
    \/ ReturnAptEntries
    \/ BeginScan
    \/ ScanLine
    \/ ThrowAfterScan
    \/ ReturnParsedLogs
    \/ SiblingCall
    \/ SiblingEnter
    \/ SiblingScanLine
    \/ SiblingConclude

SpecPair == InitPair /\ [][NextPair]_vars

(***************************************************************************)
(* The page over a session of uploads: each file is read and parsed, and   *)
(* its entries are merged or its error shown.                              *)
(***************************************************************************)
InitPage ==
    /\ fileContent = ""
    /\ filename = ""
    /\ clock \in Nows
    /\ pc = "idle"
    /\ lines = <<>>
    /\ idx = 0
    /\ parsedLogs = <<>>
    /\ lastKnownTimestamp = NaN
    /\ successfulParses = 0
    /\ via = <<>>
    /\ outcome = Pending
    /\ logEntries = <<>>
    /\ toast = NoToast
    /\ uploads = 0
    /\ filters = NoFilters
    /\ selectedEventId = NoEvent
    /\ isLoading = FALSE
    /\ flights = <<>>
    /\ sibling = NotCalled

\* processLogFile: the file is read and the parser awaited
ReadFile ==
    /\ pc = "idle"
    /\ uploads < MaxUploads
    /\ \E file \in PageFiles :
          /\ fileContent' = file.content
          /\ filename' = file.name
          /\ outcome' = Processed(file, clock)
    /\ pc' = "parsed"
    /\ isLoading' = TRUE
    /\ UNCHANGED <<clock, lines, idx, parsedLogs, lastKnownTimestamp, successfulParses, via,
                   logEntries, toast, uploads, filters, selectedEventId, flights, sibling>>

\* onLogsParsed(parsedLogs.sort(...)): handleLogsParsed
LogsParsed ==
    /\ pc = "parsed"
    /\ outcome.kind = "returned"
    /\ \E newLogs \in Sortings(outcome.records) :
       \E combinedLogs \in CombinedLogs(logEntries, newLogs) :
          /\ logEntries' = combinedLogs
          /\ toast' = ParsedToast(Len(outcome.records), Len(combinedLogs))
    /\ uploads' = uploads + 1
    /\ pc' = "idle"
    /\ isLoading' = FALSE
    /\ UNCHANGED <<fileContent, filename, clock, lines, idx, parsedLogs, lastKnownTimestamp,
                   successfulParses, via, outcome, filters, selectedEventId, flights, sibling>>

\* onError(message): handleError
ParseFailed ==
    /\ pc = "parsed"
    /\ outcome.kind = "threw"
    /\ toast' = ErrorToast(outcome.error)
    /\ pc' = "idle"
    /\ isLoading' = FALSE
    /\ UNCHANGED <<fileContent, filename, clock, lines, idx, parsedLogs, lastKnownTimestamp,
                   successfulParses, via, outcome, logEntries, uploads, filters,
                   selectedEventId, flights, sibling>>

\* handleReset, offered when the collection is not empty
Reset ==
    /\ pc = "idle"
    /\ Len(logEntries) > 0
    /\ logEntries' = <<>>
    /\ filters' = NoFilters
    /\ selectedEventId' = NoEvent
    /\ UNCHANGED <<parserVars, toast, uploads, isLoading, flights, sibling>>

NextPage ==
    \/ ReadFile
    \/ LogsParsed
    \/ ParseFailed
    \/ Reset

SpecPage == InitPage /\ [][NextPage]_vars

(***************************************************************************)
(* The filter panel, shown once a session of one or two uploads has left   *)
(* entries in the collection.                                              *)
(***************************************************************************)
InitFilter ==
    /\ clock \in Nows
    /\ \E files \in [1..1 -> PageFiles] \cup [1..2 -> PageFiles] :
          /\ fileContent = files[Len(files)].content
          /\ filename = files[Len(files)].name
          /\ outcome = Processed(files[Len(files)], clock)
          /\ \E page \in Sessions(files, clock) :
                /\ Len(page.logEntries) > 0
                /\ logEntries = page.logEntries
                /\ toast = page.toast
                /\ uploads = page.uploads
    /\ pc = "idle"
    /\ lines = <<>>
    /\ idx = 0
    /\ parsedLogs = <<>>
    /\ lastKnownTimestamp = NaN
    /\ successfulParses = 0
    /\ via = <<>>
    /\ filters = NoFilters
    /\ selectedEventId = NoEvent
    /\ isLoading = FALSE
    /\ flights = <<>>
    /\ sibling = NotCalled

\* a click on the checkbox of a level: onCheckedChange, handleLevelChange
LevelChange ==
    /\ pc = "idle"
    /\ Len(logEntries) > 0
    /\ \E i \in DOMAIN ALL_LEVELS :
          \E checked \in {~Includes(filters.levels, ALL_LEVELS[i])} :
             /\ checked => Len(filters.levels) + Len(filters.sources) < MaxChecked
             /\ filters' = LevelChanged(filters, ALL_LEVELS[i], checked)
    /\ UNCHANGED <<parserVars, logEntries, toast, uploads, selectedEventId, isLoading, flights,
                   sibling>>

\* a click on the checkbox of a source: onCheckedChange, handleSourceChange
SourceChange ==
    /\ pc = "idle"
    /\ Len(logEntries) > 0
    /\ \E source \in groupedSources(logEntries) :
          \E checked \in {~Includes(filters.sources, source)} :
             /\ checked => Len(filters.levels) + Len(filters.sources) < MaxChecked
             /\ filters' = SourceChanged(filters, source, checked)
    /\ UNCHANGED <<parserVars, logEntries, toast, uploads, selectedEventId, isLoading, flights,
                   sibling>>

NextFilter ==
    \/ LevelChange
    \/ SourceChange
    \/ Reset

SpecFilter == InitFilter /\ [][NextFilter]_vars
(***************************************************************************)
(* Uploads in flight: a file dropped on the uploader is read and parsed    *)
(* while the page stays live, so that a second file can be dropped before  *)
(* the callback of the first has run. A flight keeps the collection its    *)
(* onLogsParsed was rendered with: handleLogsParsed reads logEntries from   *)
(* the closure of that render.                                             *)
(***************************************************************************)
MaxFlights == 2

\* the files dropped
FlightFiles == {file \in PageFiles : file.name \in {"app.log", "dpkg.log", "notes.txt"}}

ReadError == "Failed to read the file."

\* processLogFile(file) called under a render whose collection is entries
Flight(file, entries) ==
    [file |-> file, snapshot |-> entries, stage |-> "reading", outcome |-> Pending,
     called |-> "none"]

\* the file of the page's first upload, when there was one
FirstFiles == {file \in PageFiles : file.name = "app.log"}

\* the page before any upload, or after one with a level checked or not; the
\* clock stands still
InitFlight ==
    /\ clock = Mk(2025, 90)
    /\ \E files \in {<<>>} \cup [1..1 -> FirstFiles] :
          /\ fileContent = IF files = <<>> THEN "" ELSE files[1].content
          /\ filename = IF files = <<>> THEN "" ELSE files[1].name
          /\ outcome = IF files = <<>> THEN Pending ELSE Processed(files[1], clock)
          /\ \E page \in Sessions(files, clock) :
                /\ logEntries = page.logEntries
                /\ toast = page.toast
                /\ uploads = page.uploads
    /\ filters \in {NoFilters}
                     \cup {LevelChanged(NoFilters, "Error", TRUE) : i \in DOMAIN logEntries}
    /\ pc = "idle"
    /\ lines = <<>>
    /\ idx = 0
    /\ parsedLogs = <<>>
    /\ lastKnownTimestamp = NaN
    /\ successfulParses = 0
    /\ via = <<>>
    /\ selectedEventId = NoEvent
    /\ isLoading = FALSE
    /\ flights = <<>>
    /\ sibling = NotCalled

\* handleDrop: processLogFile up to reader.readAsText
Drop ==
    /\ Len(flights) < MaxFlights
    /\ \E file \in FlightFiles : flights' = Append(flights, Flight(file, logEntries))
    /\ isLoading' = TRUE
    /\ UNCHANGED <<parserVars, logEntries, toast, uploads, filters, selectedEventId, sibling>>

\* reader.onerror
ReadFailed ==
    /\ \E k \in DOMAIN flights :
          /\ flights[k].stage = "reading"
          /\ flights' = [flights EXCEPT ![k].stage = "ended", ![k].called = "onError"]
    /\ toast' = ErrorToast(ReadError)
    /\ isLoading' = FALSE
    /\ UNCHANGED <<parserVars, logEntries, uploads, filters, selectedEventId, sibling>>

\* reader.onload up to the end of await parser(content)
Loaded ==
    /\ \E k \in DOMAIN flights :
          /\ flights[k].stage = "reading"
          /\ flights' = [flights EXCEPT ![k].stage = "awaited",
                                         ![k].outcome = Processed(flights[k].file, clock)]
    /\ UNCHANGED <<parserVars, logEntries, toast, uploads, filters, selectedEventId, isLoading,
                   sibling>>

\* onLogsParsed(parsedLogs.sort(...)) and the finally: the handleLogsParsed
\* of the render under which the file was dropped
FlightParsed ==
    /\ \E k \in DOMAIN flights :
          /\ flights[k].stage = "awaited"
          /\ flights[k].outcome.kind = "returned"
          /\ \E newLogs \in Sortings(flights[k].outcome.records) :
             \E combinedLogs \in CombinedLogs(flights[k].snapshot, newLogs) :
                /\ logEntries' = combinedLogs
                /\ toast' = ParsedToast(Len(newLogs), Len(combinedLogs))
          /\ flights' = [flights EXCEPT ![k].stage = "ended", ![k].called = "onLogsParsed"]
    /\ uploads' = uploads + 1
    /\ isLoading' = FALSE
    /\ UNCHANGED <<parserVars, filters, selectedEventId, sibling>>

\* a catch without its finally that also drops the selection
FlightFailedLoading ==
    /\ \E k \in DOMAIN flights :
          /\ flights[k].stage = "awaited"
          /\ flights[k].outcome.kind = "threw"
          /\ toast' = ErrorToast(flights[k].outcome.error)
          /\ flights' = [flights EXCEPT ![k].stage = "ended", ![k].called = "onError"]
    /\ selectedEventId' = NoEvent
    /\ UNCHANGED <<parserVars, logEntries, uploads, filters, isLoading, sibling>>

\* the catch and the finally: onError(message)
FlightFailed ==
    /\ \E k \in DOMAIN flights :
          /\ flights[k].stage = "awaited"
          /\ flights[k].outcome.kind = "threw"
          /\ toast' = ErrorToast(flights[k].outcome.error)
          /\ flights' = [flights EXCEPT ![k].stage = "ended", ![k].called = "onError"]
    /\ isLoading' = FALSE
    /\ UNCHANGED <<parserVars, logEntries, uploads, filters, selectedEventId, sibling>>

\* handleEventSelect: a click on an event shown, or on the selected one
EventSelect ==
    /\ Len(logEntries) > 0
    /\ \E eventId \in {filteredEntries(logEntries, filters)[i].id :
                           i \in DOMAIN filteredEntries(logEntries, filters)} \cup {NoEvent} :
          /\ eventId # selectedEventId
          /\ selectedEventId' = eventId
    /\ UNCHANGED <<parserVars, logEntries, toast, uploads, filters, isLoading, flights, sibling>>

NextFlight ==
    \/ Drop
    \/ ReadFailed
    \/ Loaded
    \/ FlightParsed
    \/ FlightFailed
    \/ EventSelect
    \/ Reset

SpecFlight == InitFlight /\ [][NextFlight]_vars

(***************************************************************************)
(* The claims.                                                             *)
(***************************************************************************)
\* the entries whose source is the fallback's
GenericMatches(logs) == Cardinality({i \in DOMAIN logs : logs[i].source = "Unknown"})

\* the line the last iteration of the scan looked at
LastLine == lines[idx - 1]
LastLog == parsedLogs[Len(parsedLogs)]
LastVia == via[Len(via)]

\* C1: after any sequence of merges from an empty collection the entries of
\* the collection have pairwise distinct ids. Violated: the next id is taken
\* from the last entry of the sorted collection, which need not hold the
\* greatest id.
C1_DistinctIds ==
    \A i, j \in DOMAIN logEntries : i # j => logEntries[i].id # logEntries[j].id

C3_ValidTimestamps ==
    (pc = "done" /\ outcome.kind = "returned")
        => \A i \in DOMAIN outcome.records : ~isNaN(outcome.records[i].timestamp)

\* the matches of blockRegex whose Start-Date parses to an instant
WellFormed(matches) == SelectSeq(matches, LAMBDA m : ~isNaN(DateParse(trim(m.parts[1]))))

\* C4: when the block extractor's entries are returned, they are the entries
\* of the blocks whose Start-Date is a date, a block whose Start-Date is none
\* being skipped. Violated: every matching block yields an entry.
C4_BadBlockSkipped ==
    (pc = "done" /\ via # <<>> /\ via[1] = "APT_BLOCK")
        => outcome.records = AptEntries(WellFormed(AptLoop(fileContent, 1)), filename)

\* C5: a file more than half of whose records are fallback records with source
\* Unknown ends with "Could not parse most entries", also when some of its
\* lines were parsed by a pattern. Violated: with one line parsed by a pattern
\* the check is not made.
C5_MostlyGenericReported ==
    (pc = "done" /\ 2 * GenericMatches(parsedLogs) > Len(parsedLogs))
        => outcome.kind = "threw" /\ outcome.error = MostEntriesError

LastParsed(i) == Most({j \in 1..i : via[j] # "fallback"})

\* C7: in the scan a fallback record that follows a record parsed by a pattern
\* has the timestamp of the last such record before it, and while the scan
\* runs lastKnownTimestamp is the timestamp of the last record parsed by a
\* pattern.
C7_ContinuationTimestamp ==
    /\ \A i \in DOMAIN parsedLogs :
          (via[i] = "fallback" /\ \E j \in 1..i : via[j] # "fallback")
              => parsedLogs[i].timestamp = parsedLogs[LastParsed(i)].timestamp
    /\ (pc = "scan" /\ \E j \in DOMAIN via : via[j] # "fallback")
          => lastKnownTimestamp = parsedLogs[LastParsed(Len(via))].timestamp

C7_Witness ==
    /\ pc = "done"
    /\ Len(via) = 3
    /\ via[1] # "fallback" /\ via[2] = "fallback" /\ via[3] = "fallback"
    /\ parsedLogs[3].timestamp = parsedLogs[1].timestamp
    /\ parsedLogs[3].timestamp \notin Nows

\* C8 as claimed: parseLogFile run at any other instant on the same content
\* and filename ends as this invocation did, with the same records.
C8_Original ==
    pc = "done" => \A n \in Nows : parseLogFile(fileContent, filename, n) = outcome

\* a record whose timestamp does not come from the clock: the last record
\* parsed at or before it was parsed by a pattern that reads the year from
\* the text (every pattern but RFC_3164), or by the block extractor
ClockFree(i) ==
    /\ \E j \in 1..i : via[j] # "fallback"
    /\ via[LastParsed(i)] # "RFC_3164"

SameButTimestamp(a, b) ==
    /\ a.filename = b.filename
    /\ a.level = b.level
    /\ a.source = b.source
    /\ a.message = b.message

\* C8 amended: parseLogFile run at any other instant on the same content and
\* filename ends the same way (the same error, or as many records in the same
\* order) with the same level, source, message and filename in every record,
\* and with the same timestamp in every record except the fallback records
\* before the first pattern-parsed line, which carry the instant of the
\* invocation, and the RFC 3164 records and the fallback records after them,
\* whose year is read from the clock.
C8_SameButClockTimestamps ==
    pc = "done" =>
        \A other \in {parseLogFile(fileContent, filename, n) : n \in Nows} :
            /\ other.kind = outcome.kind
            /\ other.error = outcome.error
            /\ Len(other.records) = Len(outcome.records)
            /\ \A i \in DOMAIN outcome.records :
                  /\ SameButTimestamp(other.records[i], outcome.records[i])
                  /\ ClockFree(i) => other.records[i].timestamp = outcome.records[i].timestamp

C8_Witness ==
    /\ pc = "done"
    /\ outcome.kind = "returned"
    /\ Len(via) = 3
    /\ via[1] = "fallback" /\ via[2] = "DPKG_LOG" /\ via[3] = "fallback"
    /\ \E n \in Nows : parseLogFile(fileContent, filename, n) # outcome

\* what pattern a of the registry extracts from a line
Extracted(a, line, now) ==
    Attempt(LOG_PATTERNS[a], Exec(LOG_PATTERNS[a].regex, LOG_PATTERNS[a].groups, line, 1), now)

\* the patterns that match a line and extract a valid timestamp from it
Parsing(line, now) == {a \in DOMAIN LOG_PATTERNS : ~isNaN(Extracted(a, line, now).timestamp)}

\* the record log carries what the partial entry holds
ComesFrom(log, entry) ==
    /\ log.timestamp = entry.timestamp
    /\ entry.level # "" => log.level = entry.level
    /\ entry.source # "" => log.source = entry.source
    /\ entry.message # "" => log.message = entry.message

\* the record pushed for a line that the patterns ps parse is the extraction
\* of the first of them
FirstOfWins(ps, line, now, name, log) ==
    Cardinality(ps) >= 2
        => /\ name = LOG_PATTERNS[Least(ps)].name
           /\ ComesFrom(log, Extracted(Least(ps), line, now))

\* C9: when two or more patterns of the registry match a line and extract a
\* valid timestamp, the record pushed for the line is the extraction of the
\* one that comes first in the registry.
C9_EarlierPatternWins ==
    [][(pc = "scan" /\ idx' = idx + 1 /\ trim(lines[idx]) # "")
          => FirstOfWins(Parsing(lines[idx], clock), lines[idx], clock,
                         via'[Len(via')], parsedLogs'[Len(parsedLogs')])]_vars

C9_Witness ==
    /\ pc = "scan"
    /\ idx > 1
    /\ via # <<>>
    /\ LastVia = "DPKG_LOG"
    /\ LastLog.source = "dpkg"
    /\ LastLine = "2024-01-01 10:00:05 WARN [auth] disk error"
    /\ ~isNaN(Extracted(7, LastLine, clock).timestamp)
    /\ Extracted(7, LastLine, clock).source = "auth"

KvShort == "level=ERROR msg=\"x\""
KvFull == "time=2024-01-01T10:00:00Z level=ERROR source=srv msg=\"x\""

C11_TwoActionBlock ==
    \A second \in {AptUpgrade, AptWrapped} :
        (pc = "done" /\ fileContent = AptBlockOf(second))
            => /\ outcome.kind = "returned"
               /\ Len(outcome.records) = 1
               /\ includes(outcome.records[1].message, AptCommand)
               /\ includes(outcome.records[1].message, AptInstall)
               /\ includes(outcome.records[1].message, trim(second))
               /\ outcome.records[1].timestamp = DateParse("2024-01-01  10:00:00")
               /\ outcome.records[1].level = "Information"

\* the members of a sequence
Members(seq) == {seq[i] : i \in DOMAIN seq}

\* the text of content outside the matches: before the first (k = 0), between
\* the k-th and the next, after the last
Piece(content, matches, k) ==
    LET from == IF k = 0 THEN 1 ELSE matches[k].end
        to == IF k = Len(matches) THEN Len(content) ELSE matches[k + 1].index - 1
    IN IF from > to THEN "" ELSE SubSeq(content, from, to)

\* the lines of content, blank ones apart, that lie outside the matches
OutsideLines(content, matches) ==
    UNION {{line \in Members(split(Piece(content, matches, k))) : trim(line) # ""} :
              k \in 0..Len(matches)}

\* the lines of the file outside the blocks that blockRegex matches
Unmatched == OutsideLines(fileContent, AptLoop(fileContent, 1))

\* an invocation that ended by returning the entries of the blocks
BlocksReturned == pc = "done" /\ via # <<>> /\ via[1] = "APT_BLOCK"

\* C12 as claimed: when the block extractor matches some spans of a file, the
\* lines outside the matched blocks are fed to the line classifier and
\* produce records.
C12_Original ==
    BlocksReturned
        => \A line \in Unmatched :
              \E i \in DOMAIN outcome.records : outcome.records[i].message = line

\* C12 amended: when the block extractor matches at least one block of a
\* file, parseLogFile returns the block records and nothing else, one record
\* per matched block: the line classifier is not run, and the lines outside
\* the matched blocks produce no record.
C12_BlocksShortCircuit ==
    BlocksReturned
        => /\ outcome.kind = "returned"
           /\ Len(outcome.records) = Len(AptLoop(fileContent, 1))
           /\ \A i \in DOMAIN outcome.records : outcome.records[i].source = "apt"
           /\ idx = 0 /\ lines = <<>> /\ parsedLogs = <<>>
           /\ \A line \in Unmatched :
                 \A i \in DOMAIN outcome.records : outcome.records[i].message # line

C12_Witness ==
    /\ BlocksReturned
    /\ fileContent = "hello world\n" \o AptBlockGood
    /\ Unmatched = {"hello world"}
    /\ Len(outcome.records) = 1
    /\ outcome.records[1].source = "apt"

\* C13: parseLogFile called with empty or whitespace-only content throws the
\* empty-file error and returns no records, before the block extractor or any
\* pattern has run: whatever the filename, no line was split off, no entry
\* built and no block or pattern recorded.
C13_EmptyRejectedFirst ==
    (pc = "done" /\ trim(fileContent) = "")
        => /\ outcome.kind = "threw"
           /\ outcome.error = EmptyFileError
           /\ outcome.records = <<>>
           /\ via = <<>> /\ parsedLogs = <<>> /\ lines = <<>> /\ idx = 0

C13_Witness ==
    /\ pc = "done"
    /\ fileContent = "   "
    /\ filename = "apt-history.log"
    /\ outcome = Threw(EmptyFileError)
    /\ via = <<>>

\* the entries with a valid timestamp are in non-decreasing order of it
InOrder(logs) ==
    \A i, j \in DOMAIN logs :
        (i < j /\ ~isNaN(logs[i].timestamp) /\ ~isNaN(logs[j].timestamp))
            => logs[i].timestamp <= logs[j].timestamp

\* an entry without its id
WithoutId(log) ==
    [filename |-> log.filename, timestamp |-> log.timestamp, level |-> log.level,
     source |-> log.source, message |-> log.message]

\* the entries of logs with the timestamp t, in their order, without their ids
StampedAt(logs, t) ==
    LET at == SelectSeq(logs, LAMBDA log : log.timestamp = t)
    IN [k \in DOMAIN at |-> WithoutId(at[k])]

\* among the entries of equal timestamp the existing ones come first, in the
\* order they had, and the new ones after them, in the order of the batch
KeepsOrder(merged, existing, batch) ==
    \A t \in {merged[i].timestamp : i \in DOMAIN merged} \ {NaN} :
        StampedAt(merged, t) = StampedAt(existing, t) \o StampedAt(batch, t)

\* C14: after every merge by handleLogsParsed the collection is sorted in
\* non-decreasing timestamp order, and entries of equal timestamp keep the
\* order existing-before-new and, within the batch, the order the parser
\* delivered them in. Violated: an entry whose timestamp is an Invalid Date
\* (C3) makes the comparator return NaN, and the sort then leaves entries with
\* valid timestamps out of order.
C14_SortedStableMerge ==
    [][(pc = "parsed" /\ pc' = "idle" /\ outcome.kind = "returned")
          => /\ InOrder(logEntries')
             /\ KeepsOrder(logEntries', logEntries, outcome.records)]_vars

\* the severities of the syslog table, from 0 to 7
SeverityTable ==
    <<"Emergency", "Alert", "Critical", "Error", "Warning", "Notice", "Information", "Debug">>

\* the number between < and > at the head of a syslog line
PriorityOf(line) ==
    parseInt(SubSeq(line, 2, Least({i \in 1..Len(line) : SubSeq(line, i, i) = ">"}) - 1))

\* C15: a line <N>... of either syslog format, for every N in 0..191, is
\* parsed by the RFC 5424 or the RFC 3164 pattern into a record whose level is
\* the entry of the severity table for N mod 8. The files hold one line each,
\* so record i is the record of line i.
C15_SeverityFromPriority ==
    /\ (pc = "done" /\ fileContent \in PriorityFiles)
          => /\ outcome.kind = "returned"
             /\ via \in {<<"RFC_5424">>, <<"RFC_3164">>}
    /\ \A i \in DOMAIN parsedLogs :
          via[i] \in {"RFC_5424", "RFC_3164"}
              => parsedLogs[i].level = SeverityTable[(PriorityOf(lines[i]) % 8) + 1]

C15_Witness ==
    /\ pc = "done"
    /\ fileContent = Rfc3164Line(34, "Oct 11 22:14:15")
    /\ via = <<"RFC_3164">>
    /\ outcome.records[1].level = "Critical"

\* C16: the timestamp of a record parsed by the RFC 3164 pattern is the
\* yearless date of the line in the year of the clock and, exactly when that
\* instant is later than the clock, in the year before; it is never later
\* than the clock.
C16_YearFromClock ==
    [][(pc = "scan" /\ idx' = idx + 1 /\ Len(via') > Len(via) /\ via'[Len(via')] = "RFC_3164")
          => \E stamp \in DOMAIN YearlessTexts :
                /\ includes(lines[idx], ">" \o stamp \o " ")
                /\ parsedLogs'[Len(parsedLogs')].timestamp =
                      IF Mk(getFullYear(clock), YearlessTexts[stamp]) > clock
                      THEN Mk(getFullYear(clock) - 1, YearlessTexts[stamp])
                      ELSE Mk(getFullYear(clock), YearlessTexts[stamp])
                /\ parsedLogs'[Len(parsedLogs')].timestamp <= clock]_vars

C16_Witness ==
    /\ pc = "done"
    /\ clock = Mk(2025, 1)
    /\ fileContent = Rfc3164Line(34, "Dec 31 23:59:59")
    /\ via = <<"RFC_3164">>
    /\ outcome.records[1].timestamp = Mk(2024, 99)

\* the keyword groups in the order they are looked for
KeywordGroups ==
    <<[level |-> "Emergency", words |-> {"emergency"}],
      [level |-> "Alert", words |-> {"alert"}],
      [level |-> "Critical", words |-> {"critical", "crit"}],
      [level |-> "Error", words |-> {"error", "err", "fail", "failure"}],
      [level |-> "Warning", words |-> {"warning", "warn"}],
      [level |-> "Notice", words |-> {"notice"}],
      [level |-> "Debug", words |-> {"debug"}],
      [level |-> "Verbose", words |-> {"verbose"}]>>

\* the groups a keyword of which occurs in text, whatever the case of its letters
GroupsIn(text) ==
    {g \in DOMAIN KeywordGroups :
        \E w \in KeywordGroups[g].words : includes(toLowerCase(text), w)}

\* the level of the first group that occurs in text
FirstGroupLevel(text) ==
    IF GroupsIn(text) = {} THEN "Information" ELSE KeywordGroups[Least(GroupsIn(text))].level

\* C17: where the level of a record is inferred from its message (the
\* fallback, the dpkg and the modern syslog pattern) it is the level of the
\* first keyword group, in the order emergency, alert, critical|crit,
\* error|err|fail|failure, warning|warn, notice, debug, verbose, that occurs in
\* the message in any case of letters, and Information when none occurs.
C17_FirstKeywordGroup ==
    \A i \in DOMAIN parsedLogs :
        via[i] \in {"fallback", "DPKG_LOG", "SYSLOG_MODERN_V2"}
            => parsedLogs[i].level = FirstGroupLevel(parsedLogs[i].message)

C17_Witness ==
    /\ pc = "done"
    /\ fileContent = "2024-01-01 10:00:00 warning then error"
    /\ via = <<"DPKG_LOG">>
    /\ GroupsIn(outcome.records[1].message) = {4, 5}
    /\ outcome.records[1].level = "Error"

\* C18: a line that no pattern parses, after a line that a pattern parsed, is
\* ingested as a record with level Information and the timestamp of the last
\* record parsed by a pattern. Violated: the level of the record is inferred
\* from the keywords of the line.
C18_UnrecognizedAsInformation ==
    \A i \in DOMAIN parsedLogs :
        (via[i] = "fallback" /\ \E j \in 1..i : via[j] # "fallback")
            => /\ parsedLogs[i].level = "Information"
               /\ parsedLogs[i].timestamp = parsedLogs[LastParsed(i)].timestamp

\* the match of the application-log pattern on a line
AppLogMatch(line) == Exec(APP_LOG_1.regex, APP_LOG_1.groups, line, 1)

\* C19: a line in the format TIMESTAMP LEVEL [Source] Message, its timestamp
\* YYYY-MM-DD HH:MM:SS with or without ,mmm, yields a record parsed by
\* APP_LOG_1: its source is the bracketed text and its level is mapped from
\* the LEVEL token. Violated: without milliseconds the line is taken by
\* DPKG_LOG, which comes earlier in the registry.
C19_AppLogFormat ==
    (pc = "scan" /\ idx > 1 /\ AppLogMatch(LastLine).ok
     /\ ~isNaN(Attempt(APP_LOG_1, AppLogMatch(LastLine), clock).timestamp))
        => /\ LastVia = "APP_LOG_1"
           /\ LastLog.source = AppLogMatch(LastLine).parts[3]
           /\ LastLog.level = mapGenericLevel(AppLogMatch(LastLine).parts[2])

\* C20: in the filter panel a level is shown unavailable exactly when no
\* entry of that level has one of the sources checked (any source when none
\* is checked), and a source exactly when no entry of that source has one of
\* the levels checked (any level when none is checked). Violated: with a level
\* and a source checked, only the options of the entries that pass both
\* filters are shown available.
C20_GreyedIffNoResults ==
    Len(logEntries) > 0
        => /\ \A l \in DOMAIN ALL_LEVELS :
                 ALL_LEVELS[l] \notin availableLevels(logEntries, filters)
                     <=> ~\E i \in DOMAIN logEntries :
                             /\ logEntries[i].level = ALL_LEVELS[l]
                             /\ Len(filters.sources) = 0
                                   \/ Includes(filters.sources, logEntries[i].source)
           /\ \A source \in groupedSources(logEntries) :
                 source \notin availableSources(logEntries, filters)
                     <=> ~\E i \in DOMAIN logEntries :
                             /\ logEntries[i].source = source
                             /\ Len(filters.levels) = 0
                                   \/ Includes(filters.levels, logEntries[i].level)

\* the patterns of the registry whose regex matches a line
Matching(line) ==
    {a \in DOMAIN LOG_PATTERNS :
        Exec(LOG_PATTERNS[a].regex, LOG_PATTERNS[a].groups, line, 1).ok}

\* the record pushed for a line: that of the first pattern that parses it,
\* the fallback's when no pattern does
FromFirstParsing(ps, line, now, name, log, last) ==
    /\ ~isNaN(log.timestamp)
    /\ ps # {} => /\ name = LOG_PATTERNS[Least(ps)].name
                  /\ ComesFrom(log, Extracted(Least(ps), line, now))
    /\ ps = {} => /\ name = "fallback"
                  /\ log.timestamp = last
                  /\ log.message = line

\* C21: when the regex of a pattern matches a line and the timestamp it
\* extracts is invalid, the scan goes on with the next patterns: the record
\* of the line comes from the first pattern of the registry that matches and
\* extracts a valid timestamp, from the fallback when there is none; its
\* timestamp is valid and the scan goes on without an error.
C21_InvalidMatchDiscarded ==
    [][(pc = "scan" /\ idx' = idx + 1
          /\ Matching(lines[idx]) \ Parsing(lines[idx], clock) # {})
          => /\ FromFirstParsing(Parsing(lines[idx], clock), lines[idx], clock,
                                 via'[Len(via')], parsedLogs'[Len(parsedLogs')],
                                 lastKnownTimestamp)
             /\ Len(parsedLogs') = Len(parsedLogs) + 1
             /\ pc' = "scan"
             /\ outcome' = Pending]_vars

C21_Witness ==
    /\ pc = "done"
    /\ outcome.kind = "returned"
    /\ via = <<"DPKG_LOG">>
    /\ 1 \in Matching(lines[1]) \ Parsing(lines[1], clock)
    /\ LOG_PATTERNS[1].name = "KEY_VALUE_LOG"
    /\ ~isNaN(outcome.records[1].timestamp)

\* the block extractor is run on the file
ExtractorRuns == includes(filename, "apt-history.log") \/ includes(fileContent, "Start-Date:")

\* the blocks of the file, in file order
Blocks == AptLoop(fileContent, 1)

\* C22: when the block extractor finds a block in a file, parseLogFile returns
\* one record for each block, in the order of the blocks in the file, and no
\* line of the file is classified; when the extractor runs and finds no block,
\* the file is scanned line by line and the outcome is that of the scan.
C22_BlocksOrScan ==
    (pc = "done" /\ trim(fileContent) # "" /\ ExtractorRuns)
        => /\ Blocks # <<>>
                => /\ outcome.kind = "returned"
                   /\ DOMAIN outcome.records = DOMAIN Blocks
                   /\ \A k \in DOMAIN Blocks :
                         /\ outcome.records[k].timestamp = DateParse(trim(Blocks[k].parts[1]))
                         /\ includes(outcome.records[k].message, trim(Blocks[k].parts[2]))
                         /\ k > 1 => Blocks[k - 1].end <= Blocks[k].index
                   /\ via = [k \in DOMAIN Blocks |-> "APT_BLOCK"]
                   /\ lines = <<>> /\ idx = 0 /\ parsedLogs = <<>> /\ successfulParses = 0
           /\ Blocks = <<>>
                => /\ lines = split(fileContent)
                   /\ idx = Len(lines) + 1
                   /\ \A i \in DOMAIN via : via[i] # "APT_BLOCK"
                   /\ Len(via) = Cardinality({i \in DOMAIN lines : trim(lines[i]) # ""})
                   /\ outcome.kind = "threw" => outcome.error = MostEntriesError
                   /\ outcome.kind = "returned" => outcome.records = parsedLogs

C22_Witness ==
    /\ pc = "done"
    /\ fileContent = AptBlockGood \o "\n\n" \o AptBlockBad
    /\ Len(outcome.records) = 2
    /\ includes(outcome.records[1].message, "apt install x")
    /\ includes(outcome.records[2].message, "apt upgrade")
    /\ lines = <<>>

\* the lines among the first n of the file that are not blank
NonBlank(n) == {i \in 1..n : trim(lines[i]) # ""}

\* the line behind the k-th record of the scan: the k-th that is not blank
LineOf(k) == CHOOSE i \in NonBlank(Len(lines)) : Cardinality(NonBlank(i)) = k

\* C23: during and after the scan the records built are, in file order, one
\* for each line scanned that is not blank: a fallback record carries its
\* line, another record is of a pattern that matches its line; the records
\* returned are these; and the iteration on a blank line leaves the records
\* and the last known timestamp as they were.
C23_RecordPerNonBlankLine ==
    /\ [](pc \in {"scan", "done"} /\ lines # <<>>
            => /\ Len(parsedLogs) = Cardinality(NonBlank(idx - 1))
               /\ Len(via) = Len(parsedLogs)
               /\ \A k \in DOMAIN parsedLogs :
                     /\ via[k] = "fallback" => parsedLogs[k].message = lines[LineOf(k)]
                     /\ via[k] # "fallback"
                           => \E a \in Matching(lines[LineOf(k)]) : LOG_PATTERNS[a].name = via[k]
               /\ outcome.kind = "returned"
                     => idx = Len(lines) + 1 /\ outcome.records = parsedLogs)
    /\ [][(pc = "scan" /\ idx' = idx + 1 /\ trim(lines[idx]) = "")
            => UNCHANGED <<parsedLogs, via, lastKnownTimestamp, successfulParses>>]_vars

C23_Witness ==
    /\ pc = "done"
    /\ outcome.kind = "returned"
    /\ Len(lines) = 3
    /\ lines[2] = "   "
    /\ Len(outcome.records) = 2
    /\ via = <<"DPKG_LOG", "fallback">>
    /\ outcome.records[2].message = lines[3]
    /\ lastKnownTimestamp = outcome.records[1].timestamp

\* C24: an invocation throws only at its entry, for a blank file, before any
\* line is split off, or after the last line of the file has been scanned;
\* every step taken while lines remain leaves the invocation in the scan,
\* without an outcome.
C24_NoThrowDuringScan ==
    /\ [](outcome.kind = "threw"
            => /\ pc = "done"
               /\ \/ outcome.error = EmptyFileError /\ lines = <<>> /\ idx = 0
                  \/ outcome.error # EmptyFileError /\ lines # <<>> /\ idx = Len(lines) + 1)
    /\ [][(pc = "scan" /\ idx <= Len(lines)) => (pc' = "scan" /\ outcome' = Pending)]_vars

C24_Witness ==
    /\ pc = "done"
    /\ outcome.kind = "threw"
    /\ outcome.error = MostEntriesError
    /\ Len(lines) = 1
    /\ idx = 2
    /\ Matching(lines[1]) # {}

\* the nine levels
Severities == {ALL_LEVELS[i] : i \in DOMAIN ALL_LEVELS}

\* what the pattern behind the k-th record of the scan extracts from its line
ExtractedFor(k) ==
    Extracted(CHOOSE a \in DOMAIN LOG_PATTERNS : LOG_PATTERNS[a].name = via[k],
              lines[LineOf(k)], clock)

\* C25: every record that parseLogFile returns has a source and a message
\* that are not empty, one of the nine levels and the filename of the call;
\* a record of the scan whose pattern extracted an empty source, message or
\* level has the source Unknown, its line as message, the level Information.
C25_RecordFieldsFilled ==
    (pc = "done" /\ outcome.kind = "returned")
        => /\ \A k \in DOMAIN outcome.records :
                 /\ outcome.records[k].source # ""
                 /\ outcome.records[k].message # ""
                 /\ outcome.records[k].level \in Severities
                 /\ outcome.records[k].filename = filename
           /\ \A k \in DOMAIN parsedLogs :
                 via[k] \notin {"fallback", "APT_BLOCK"}
                     => /\ ExtractedFor(k).source = "" => parsedLogs[k].source = "Unknown"
                        /\ ExtractedFor(k).message = ""
                              => parsedLogs[k].message = lines[LineOf(k)]
                        /\ ExtractedFor(k).level = "" => parsedLogs[k].level = "Information"

C25_Witness ==
    /\ pc = "done"
    /\ outcome.kind = "returned"
    /\ via = <<"DPKG_LOG">>
    /\ ExtractedFor(1).message = ""
    /\ outcome.records[1].message = "2024-01-01 10:00:00 "

NoneParsed == \A k \in DOMAIN via : via[k] = "fallback"

\* C29: the scan starts with the instant of the clock as last known
\* timestamp; a line that no pattern parses and that comes before every
\* line parsed by a pattern gets that instant, which stays the last known
\* timestamp, also when the clock has moved on since; it is a clock instant,
\* not the timestamp of a line.
C29_LeadingFallbackClock ==
    /\ [][/\ (pc = "entry" /\ pc' = "scan") => lastKnownTimestamp' = clock
          /\ (pc = "scan" /\ idx' = idx + 1 /\ NoneParsed /\ Len(via') > Len(via)
                 /\ via'[Len(via')] = "fallback")
                => /\ parsedLogs'[Len(parsedLogs')].timestamp = lastKnownTimestamp
                   /\ lastKnownTimestamp' = lastKnownTimestamp]_vars
    /\ [](\A k \in DOMAIN parsedLogs :
              (\A j \in 1..k : via[j] = "fallback")
                  => /\ parsedLogs[k].timestamp = parsedLogs[1].timestamp
                     /\ parsedLogs[k].timestamp \in Nows
                     /\ parsedLogs[k].timestamp <= clock)

C29_Witness ==
    /\ pc = "done"
    /\ outcome.kind = "returned"
    /\ Len(via) = 3
    /\ via[1] = "fallback" /\ via[2] = "fallback" /\ via[3] # "fallback"
    /\ outcome.records[2].timestamp = Mk(2025, 50)
    /\ clock = Mk(2025, 90)
    /\ outcome.records[3].timestamp # Mk(2025, 50)

\* the timestamps of the records that patterns parsed in the second
\* invocation
SiblingParsed ==
    {sibling.parsedLogs[k].timestamp : k \in {j \in DOMAIN sibling.via : sibling.via[j] # "fallback"}}

\* C26: with two invocations of parseLogFile in progress at once, stepping in
\* any order, each ends as it ends when it runs alone at the same instant,
\* and the last known timestamp of an invocation is the clock's instant or the
\* timestamp of a record of its own file, never one of the other file.
C26_InvocationsIsolated ==
    /\ pc = "done" => outcome = parseLogFile(fileContent, filename, clock)
    /\ sibling.pc = "done"
          => sibling.outcome = parseLogFile(sibling.fileContent, sibling.filename, clock)
    /\ sibling.pc = "scan" => sibling.lastKnownTimestamp \in {clock} \cup SiblingParsed
    /\ pc = "scan"
          => lastKnownTimestamp
                \in {clock} \cup {parsedLogs[k].timestamp : k \in DOMAIN parsedLogs}

C26_Witness ==
    /\ pc = "scan"
    /\ idx = 2
    /\ lastKnownTimestamp # clock
    /\ sibling.pc = "scan"
    /\ sibling.idx = 2
    /\ sibling.via = <<"fallback">>
    /\ sibling.parsedLogs[1].timestamp = clock

\* the collection holds every record of a parsed file
Holds(entries, records) ==
    \A i \in DOMAIN records : \E e \in DOMAIN entries : WithoutId(entries[e]) = records[i]

\* C27: when the callback of an upload merges its records, the records that
\* the callback of another upload merged before are still in the collection
\* beside those of its own file, also when the two uploads were in flight
\* at the same time. Violated: a callback merges into the collection of the
\* render under which its file was dropped.
C27_NoUploadLost ==
    [][\A j, k \in DOMAIN flights :
          (/\ j # k
           /\ flights[j].called = "onLogsParsed"
           /\ Holds(logEntries, flights[j].outcome.records)
           /\ flights[k].stage = "awaited"
           /\ flights'[k].called = "onLogsParsed")
              => /\ Holds(logEntries', flights[j].outcome.records)
                 /\ Holds(logEntries', flights[k].outcome.records)]_vars

\* the upload k ends at this step and its file was not parsed: it could not
\* be read, or the parser threw
FailsNow(k) ==
    /\ flights[k].stage # "ended"
    /\ flights'[k].stage = "ended"
    /\ flights[k].stage = "reading" \/ flights[k].outcome.kind = "threw"

\* C30: the step that ends an upload whose file could not be read or parsed
\* calls onError, shows the error toast, leaves the collection, the filters
\* and the selected event as they were and sets the loading flag to false;
\* onLogsParsed is called only for a file whose parse returned.
C30_FailureLeavesPage ==
    /\ [][\A k \in DOMAIN flights :
             FailsNow(k)
                => /\ flights'[k].called = "onError"
                   /\ toast'.title = "Error parsing log file"
                   /\ UNCHANGED <<logEntries, filters, selectedEventId, uploads>>
                   /\ isLoading' = FALSE]_vars
    /\ [](\A k \in DOMAIN flights :
              flights[k].called = "onLogsParsed" => flights[k].outcome.kind = "returned")

C30_Witness ==
    /\ flights # <<>>
    /\ flights[1].called = "onError"
    /\ flights[1].outcome = Threw(MostEntriesError)
    /\ toast = ErrorToast(MostEntriesError)
    /\ filters.levels = <<"Error">>
    /\ selectedEventId # NoEvent
    /\ Len(logEntries) = 2
    /\ isLoading = FALSE

====
